---- MODULE Spec2Model ----
(***************************************************************************)
(* Model of the schedule normalizers of boomerang.py (lps_crawler).        *)
(*                                                                         *)
(* A text is a sequence of one-character strings, so that the regular      *)
(* expressions and string operations of the source are computed character  *)
(* by character.  A datetime is the number of minutes since midnight of    *)
(* day 0, a date is a day number.                                          *)
(***************************************************************************)
EXTENDS Integers, Sequences, FiniteSets, TLC

(***************************************************************************)
(* Characters                                                              *)
(***************************************************************************)
DigitChars == <<"0", "1", "2", "3", "4", "5", "6", "7", "8", "9">>

Digits == {DigitChars[k] : k \in 1..10}

\* \d of the re module
IsDigit(c) == c \in Digits

\* int() of one digit character
DigitVal(c) ==
    CASE c = "0" -> 0 [] c = "1" -> 1 [] c = "2" -> 2 [] c = "3" -> 3 [] c = "4" -> 4
      [] c = "5" -> 5 [] c = "6" -> 6 [] c = "7" -> 7 [] c = "8" -> 8 [] c = "9" -> 9

\* \s of the re module, str.strip() whitespace
IsSpace(c) == c = " " \/ c = "\t" \/ c = "\n"

\* the characters of the modelled alphabet that are not \w
Punct == {" ", "\t", "\n", ":", ".", "|", "-", "/", ",", "<", ">", "&", ";", "+", "@"}

\* \w of the re module (letters, digits, underscore)
IsWord(c) == c \notin Punct

\* str.lower() on one character
LowerChar(c) ==
    CASE c = "A" -> "a" [] c = "B" -> "b" [] c = "C" -> "c" [] c = "D" -> "d"
      [] c = "E" -> "e" [] c = "F" -> "f" [] c = "G" -> "g" [] c = "H" -> "h"
      [] c = "I" -> "i" [] c = "J" -> "j" [] c = "K" -> "k" [] c = "L" -> "l"
      [] c = "M" -> "m" [] c = "N" -> "n" [] c = "O" -> "o" [] c = "P" -> "p"
      [] c = "Q" -> "q" [] c = "R" -> "r" [] c = "S" -> "s" [] c = "T" -> "t"
      [] c = "U" -> "u" [] c = "V" -> "v" [] c = "W" -> "w" [] c = "X" -> "x"
      [] c = "Y" -> "y" [] c = "Z" -> "z"
      [] OTHER -> c

Lower(s) == [k \in 1..Len(s) |-> LowerChar(s[k])]

\* s[i:j] of Python with 1-based inclusive bounds: clipped to the text, empty
\* when nothing is left
Slice(s, i, j) ==
    LET lo == IF i < 1 THEN 1 ELSE i
        hi == IF j > Len(s) THEN Len(s) ELSE j
    IN  IF hi < lo THEN <<>> ELSE SubSeq(s, lo, hi)

\* str.startswith
StartsWith(s, p) == Len(s) >= Len(p) /\ SubSeq(s, 1, Len(p)) = p

\* the substring test `p in s`
Contains(s, p) ==
    \E i \in 1..(Len(s) - Len(p) + 1) : SubSeq(s, i, i + Len(p) - 1) = p

\* str.strip()
RECURSIVE LStrip(_)
LStrip(s) == IF s # <<>> /\ IsSpace(Head(s)) THEN LStrip(Tail(s)) ELSE s

RECURSIVE RStrip(_)
RStrip(s) ==
    IF s # <<>> /\ IsSpace(s[Len(s)]) THEN RStrip(SubSeq(s, 1, Len(s) - 1)) ELSE s

Strip(s) == RStrip(LStrip(s))

\* sep.join(parts)
RECURSIVE Join(_, _)
Join(parts, sep) ==
    IF parts = <<>> THEN <<>>
    ELSE IF Len(parts) = 1 THEN parts[1]
    ELSE parts[1] \o sep \o Join(Tail(parts), sep)

\* int() of a run of digits
RECURSIVE IntOf(_)
IntOf(s) ==
    IF s = <<>> THEN 0 ELSE 10 * IntOf(SubSeq(s, 1, Len(s) - 1)) + DigitVal(s[Len(s)])

(***************************************************************************)
(* Regular expressions of boomerang.py                                     *)
(***************************************************************************)
NoMatch == [found |-> FALSE]

\* Python's None for last_start, time_idx and duration_min (all >= 0 otherwise)
None == -1

\* the `\s` characters, as a set
Spaces == {" ", "\t", "\n"}

\* the index of the last character of the run of characters of `chars` that
\* starts at i (a greedy repetition)
RECURSIVE RunEnd(_, _, _)
RunEnd(chars, s, i) ==
    IF i + 1 <= Len(s) /\ s[i + 1] \in chars THEN RunEnd(chars, s, i + 1) ELSE i

\* the index of the last character of the run of \S characters that starts at i
RECURSIVE NonSpaceRunEnd(_, _)
NonSpaceRunEnd(s, i) ==
    IF i + 1 <= Len(s) /\ ~IsSpace(s[i + 1]) THEN NonSpaceRunEnd(s, i + 1) ELSE i

\* [:.][0-5]\d\b at index j
TimeTailAt(s, j) ==
    /\ j + 2 <= Len(s)
    /\ s[j] \in {":", "."}
    /\ s[j + 1] \in {"0", "1", "2", "3", "4", "5"}
    /\ IsDigit(s[j + 2])
    /\ (j + 2 = Len(s) \/ ~IsWord(s[j + 3]))

\* the length of the hour group of TIME_RE matching at index i, 0 when TIME_RE
\* does not match there: \b, then [01]?\d tried with and without its optional
\* digit, then 2[0-3]
TimeHourLenAt(s, i) ==
    IF ~(i = 1 \/ ~IsWord(s[i - 1])) THEN 0
    ELSE IF /\ i + 1 <= Len(s)
            /\ s[i] \in {"0", "1"}
            /\ IsDigit(s[i + 1])
            /\ TimeTailAt(s, i + 2) THEN 2
    ELSE IF IsDigit(s[i]) /\ TimeTailAt(s, i + 1) THEN 1
    ELSE IF /\ i + 1 <= Len(s)
            /\ s[i] = "2"
            /\ s[i + 1] \in {"0", "1", "2", "3"}
            /\ TimeTailAt(s, i + 2) THEN 2
    ELSE 0

\* the first index >= i at which TIME_RE matches, 0 when there is none
RECURSIVE FirstTimeFrom(_, _)
FirstTimeFrom(s, i) ==
    IF i > Len(s) THEN 0
    ELSE IF TimeHourLenAt(s, i) > 0 THEN i
    ELSE FirstTimeFrom(s, i + 1)

\* the match of TIME_RE at index i with an hour group of h characters: first
\* and last are the indexes of the first and last matched characters, hh and mm
\* the integers of m.group(0).replace(".", ":").split(":")
TimeMatch(s, i, h) ==
    [found |-> TRUE,
     first |-> i,
     last  |-> i + h + 2,
     hh    |-> IntOf(SubSeq(s, i, i + h - 1)),
     mm    |-> IntOf(SubSeq(s, i + h + 1, i + h + 2))]

TimeMatchAt(s, i) == IF i = 0 THEN NoMatch ELSE TimeMatch(s, i, TimeHourLenAt(s, i))

\* TIME_RE.search(s): the leftmost match
TimeSearch(s) == TimeMatchAt(s, FirstTimeFrom(s, 1))

\* [:.](\d{2}) at index j
DurTailAt(s, j) ==
    /\ j + 2 <= Len(s)
    /\ s[j] \in {":", "."}
    /\ IsDigit(s[j + 1])
    /\ IsDigit(s[j + 2])

\* the length of group 1 of DUR_HHMM_RE matching at index i (greedy \d{1,2}),
\* 0 when it does not match there
DurHourLenAt(s, i) ==
    IF ~IsDigit(s[i]) THEN 0
    ELSE IF i + 1 <= Len(s) /\ IsDigit(s[i + 1]) /\ DurTailAt(s, i + 2) THEN 2
    ELSE IF DurTailAt(s, i + 1) THEN 1
    ELSE 0

\* the first index >= i at which DUR_HHMM_RE matches, 0 when there is none
RECURSIVE FirstDurFrom(_, _)
FirstDurFrom(s, i) ==
    IF i > Len(s) THEN 0
    ELSE IF DurHourLenAt(s, i) > 0 THEN i
    ELSE FirstDurFrom(s, i + 1)

\* int(m.group(1)) * 60 + int(m.group(2)) of the match of DUR_HHMM_RE at
\* index i with a first group of h characters
DurMatch(s, i, h) ==
    [found   |-> TRUE,
     minutes |-> IntOf(SubSeq(s, i, i + h - 1)) * 60
                 + IntOf(SubSeq(s, i + h + 1, i + h + 2))]

DurMatchAt(s, i) == IF i = 0 THEN NoMatch ELSE DurMatch(s, i, DurHourLenAt(s, i))

\* DUR_HHMM_RE.search(s): the leftmost match
DurHhmmSearch(s) == DurMatchAt(s, FirstDurFrom(s, 1))

\* the index of the first digit at or after i, 0 when there is none
RECURSIVE FirstDigitFrom(_, _)
FirstDigitFrom(s, i) ==
    IF i > Len(s) THEN 0
    ELSE IF IsDigit(s[i]) THEN i
    ELSE FirstDigitFrom(s, i + 1)

\* int(m2.group(1)) for the digits from index i to index e: \d{1,3} takes at
\* most three of them
MinMatch(s, i, e) ==
    [found |-> TRUE, minutes |-> IntOf(SubSeq(s, i, IF e > i + 2 THEN i + 2 ELSE e))]

MinMatchAt(s, i) == IF i = 0 THEN NoMatch ELSE MinMatch(s, i, RunEnd(Digits, s, i))

\* DUR_MIN_RE.search(s): the leftmost digit and the digits after it (the unit
\* suffix is optional)
DurMinSearch(s) == MinMatchAt(s, FirstDigitFrom(s, 1))

\* ://\S+ from index j: the index of its last character, 0 when it does not
\* match
UrlTailEnd(s, j) ==
    IF Slice(s, j, j + 2) = <<":", "/", "/">> /\ j + 3 <= Len(s) /\ ~IsSpace(s[j + 3])
    THEN NonSpaceRunEnd(s, j + 3) ELSE 0

\* the index of the last character of a match of https?://\S+ at index i, 0
\* when there is none
UrlEndAt(s, i) ==
    IF Slice(s, i, i + 3) # <<"h", "t", "t", "p">> THEN 0
    ELSE IF i + 4 <= Len(s) /\ s[i + 4] = "s" /\ UrlTailEnd(s, i + 5) > 0
         THEN UrlTailEnd(s, i + 5)
    ELSE UrlTailEnd(s, i + 4)

\* re.sub(r'https?://\S+', '', s) from index i on; e is UrlEndAt(s, i)
RECURSIVE RemoveUrlsFrom(_, _)
RemoveUrlsAt(s, i, e) ==
    IF e > 0 THEN RemoveUrlsFrom(s, e + 1) ELSE <<s[i]>> \o RemoveUrlsFrom(s, i + 1)

RemoveUrlsFrom(s, i) == IF i > Len(s) THEN <<>> ELSE RemoveUrlsAt(s, i, UrlEndAt(s, i))

RemoveUrls(s) == RemoveUrlsFrom(s, 1)

\* re.sub(r'\s+', ' ', s)
RECURSIVE CollapseSpacesFrom(_, _)
CollapseSpacesFrom(s, i) ==
    IF i > Len(s) THEN <<>>
    ELSE IF IsSpace(s[i]) THEN <<" ">> \o CollapseSpacesFrom(s, RunEnd(Spaces, s, i) + 1)
    ELSE <<s[i]>> \o CollapseSpacesFrom(s, i + 1)

CollapseSpaces(s) == CollapseSpacesFrom(s, 1)

\* [p.strip() for p in PIPE_SPLIT_RE.split(ln)]: the pieces between the pipes,
\* the whitespace around a pipe belonging to the separator
RECURSIVE SplitPipeFrom(_, _, _)
SplitPipeFrom(s, i, from) ==
    IF i > Len(s) THEN <<Strip(Slice(s, from, Len(s)))>>
    ELSE IF s[i] = "|"
         THEN <<Strip(Slice(s, from, i - 1))>> \o SplitPipeFrom(s, i + 1, i + 1)
    ELSE SplitPipeFrom(s, i + 1, from)

SplitPipe(s) == SplitPipeFrom(s, 1, 1)

\* [p for p in parts if p != '']
NonEmptyParts(parts) == SelectSeq(parts, LAMBDA p : p # <<>>)

\* [ln.strip() for ln in lines]
StripAll(lines) == [k \in 1..Len(lines) |-> Strip(lines[k])]

(***************************************************************************)
(* The row loop shared by the normalizers of boomerang.py                  *)
(***************************************************************************)
DEFAULT_DURATION_MIN == 30

MinutesPerDay == 1440

\* cells[k] and cells[a:b] with Python's 0-based indexes
At0(cells, k) == cells[k + 1]
Slice0(cells, a, b) == Slice(cells, a + 1, b)

\* datetime.combine(current_day, dtime(hh, mm))
Combine(current_day, hh, mm) == current_day * MinutesPerDay + hh * 60 + mm

\* start_dt.date()
DateOf(dt) == dt \div MinutesPerDay

\* start_dt.isoformat(): the date and the clock of the datetime
IsoFormat(dt) == <<DateOf(dt), (dt % MinutesPerDay) \div 60, dt % 60>>

\* for i, c in enumerate(cells[:4]): the 0-based index of the first of the first
\* four cells in which TIME_RE matches, None when there is none
RECURSIVE TimeIdxFrom(_, _)
TimeIdxFrom(cells, i) ==
    IF i >= Len(cells) \/ i >= 4 THEN None
    ELSE IF TimeSearch(At0(cells, i)).found THEN i
    ELSE TimeIdxFrom(cells, i + 1)

TimeIdx(cells) == TimeIdxFrom(cells, 0)

\* DUR_HHMM_RE.search(candidate) or DUR_MIN_RE.search(candidate)
LooksLikeDuration(candidate) ==
    DurHhmmSearch(candidate).found \/ DurMinSearch(candidate).found

Fields(title, desc, dur_cell) == [title |-> title, desc |-> desc, dur_cell |-> dur_cell]

\* the title, desc and dur_cell of a row from its cells and the index of its
\* time cell, before the URLs are removed
RowFields(cells, time_idx) ==
    IF time_idx # None /\ Len(cells) > time_idx + 1
    THEN IF Len(cells) >= time_idx + 4
         THEN IF LooksLikeDuration(cells[Len(cells)])
              THEN Fields(At0(cells, time_idx + 1),
                          Join(Slice0(cells, time_idx + 2, Len(cells) - 1), <<" ">>),
                          cells[Len(cells)])
              ELSE Fields(At0(cells, time_idx + 1),
                          Join(Slice0(cells, time_idx + 2, Len(cells)), <<" ">>),
                          <<>>)
         ELSE IF Len(cells) = time_idx + 2
         THEN Fields(At0(cells, time_idx + 1), <<>>, <<>>)
         ELSE Fields(At0(cells, time_idx + 1),
                     Join(Slice0(cells, time_idx + 2, Len(cells)), <<" ">>),
                     <<>>)
    ELSE IF Len(cells) >= 2
         THEN Fields(At0(cells, 1),
                     IF Len(cells) > 2 THEN Join(Slice0(cells, 2, Len(cells)), <<" ">>)
                     ELSE <<>>,
                     <<>>)
         ELSE Fields(Join(cells, <<" ">>), <<>>, <<>>)

\* re.sub(r'https?://\S+', '', text).strip()
CleanText(text) == Strip(RemoveUrls(text))

\* title.lower().startswith("thời gian") or
\* title.lower().startswith("tên chương trình"), title already lower-cased
IsHeaderLower(lower) ==
    \/ StartsWith(lower, <<"t", "h", "ờ", "i", " ", "g", "i", "a", "n">>)
    \/ StartsWith(lower,
                  <<"t", "ê", "n", " ", "c", "h", "ư", "ơ", "n", "g", " ",
                    "t", "r", "ì", "n", "h">>)

IsHeaderTitle(title) == IsHeaderLower(Lower(title))

\* the minutes of the first of two searches that matched, None when neither did
FirstFound(first, second) ==
    IF first.found THEN first.minutes
    ELSE IF second.found THEN second.minutes
    ELSE None

\* mutant: DUR_MIN_RE tried before DUR_HHMM_RE
DurationInMinutesFirst(txt) == FirstFound(DurMinSearch(txt), DurHhmmSearch(txt))

\* the duration found in one text: DUR_HHMM_RE first, then DUR_MIN_RE
DurationIn(txt) == FirstFound(DurHhmmSearch(txt), DurMinSearch(txt))

\* for txt in (title, desc, row): the duration of the first text that has one;
\* found is the duration in the first of the texts
RECURSIVE FirstDurationIn(_)
FirstDurationFrom(found, rest) == IF found # None THEN found ELSE FirstDurationIn(rest)

FirstDurationIn(txts) ==
    IF txts = <<>> THEN None ELSE FirstDurationFrom(DurationIn(Head(txts)), Tail(txts))

\* if dur_cell: the duration in the duration cell
CellDuration(dur_cell) == IF dur_cell # <<>> THEN DurationIn(dur_cell) ELSE None

\* if duration_min is None: search the title, the description and the row
SearchedDuration(duration_min, title, desc, rowtext) ==
    IF duration_min # None THEN duration_min
    ELSE FirstDurationIn(<<title, desc, rowtext>>)

\* if duration_min is None: duration_min = DEFAULT_DURATION_MIN
OrDefault(duration_min) ==
    IF duration_min # None THEN duration_min ELSE DEFAULT_DURATION_MIN

\* mutant: the duration cell is not looked at
DurationMinWithoutCell(dur_cell, title, desc, rowtext) ==
    OrDefault(SearchedDuration(None, title, desc, rowtext))

\* duration_min of a row: the duration cell, else the first duration found in
\* the title, the description or the text of the whole row, else the default
DurationMin(dur_cell, title, desc, rowtext) ==
    OrDefault(SearchedDuration(CellDuration(dur_cell), title, desc, rowtext))

\* mutant: the rollover test with < for <=
RolloverStrict(current_day, last_start, hh, mm) ==
    last_start # None /\ Combine(current_day, hh, mm) < last_start

\* if last_start and start_dt <= last_start
Rollover(current_day, last_start, hh, mm) ==
    last_start # None /\ Combine(current_day, hh, mm) <= last_start

\* mutant: the start is never moved to the next day
StartDtNoAdvance(current_day, last_start, hh, mm) == Combine(current_day, hh, mm)

\* start_dt of a row: the clock on current_day, one day later on rollover
StartDt(current_day, last_start, hh, mm) ==
    IF Rollover(current_day, last_start, hh, mm)
    THEN Combine(current_day, hh, mm) + MinutesPerDay
    ELSE Combine(current_day, hh, mm)

\* current_day after a row: start_dt.date() on rollover, unchanged otherwise
CurrentDay(current_day, last_start, hh, mm) ==
    IF Rollover(current_day, last_start, hh, mm)
    THEN DateOf(StartDt(current_day, last_start, hh, mm))
    ELSE current_day

\* mutant: the key is the normalized title alone
DedupKeyByTitle(start_dt, title) == <<Lower(CollapseSpaces(title))>>

\* key = (start_dt.isoformat(), re.sub(r'\s+', ' ', title).lower())
DedupKey(start_dt, title) == <<IsoFormat(start_dt), Lower(CollapseSpaces(title))>>

\* the cursors of one pass: programs, seen, last_start, current_day
InitCursor(base_date) ==
    [programs |-> <<>>, seen |-> {}, last_start |-> None, current_day |-> base_date]

\* what a row yields before it is dated: `continue` (ok false), or its clock,
\* title, desc and duration_min
Skip == [ok |-> FALSE]

Candidate(hh, mm, title, desc, duration_min) ==
    [ok |-> TRUE, hh |-> hh, mm |-> mm, title |-> title, desc |-> desc,
     duration_min |-> duration_min]

\* a row once dated: skipped when its key was seen, appended otherwise; the
\* cursors move in both cases
Dated(c, start_dt, current_day, title, desc, duration_min, key) ==
    IF key \in c.seen
    THEN [c EXCEPT !.last_start = start_dt, !.current_day = current_day]
    ELSE [programs    |-> Append(c.programs,
                                 [start |-> start_dt, stop |-> start_dt + duration_min,
                                  title |-> title, desc |-> desc]),
          seen        |-> c.seen \cup {key},
          last_start  |-> start_dt,
          current_day |-> current_day]

\* one row from start_dt on: the rollover, the stop, the key, the append
AcceptAt(c, start_dt, current_day, title, desc, duration_min) ==
    Dated(c, start_dt, current_day, title, desc, duration_min, DedupKey(start_dt, title))

Accept(c, hh, mm, title, desc, duration_min) ==
    AcceptAt(c, StartDt(c.current_day, c.last_start, hh, mm),
             CurrentDay(c.current_day, c.last_start, hh, mm),
             title, desc, duration_min)

\* the rest of the loop body for what a row yielded
AcceptCandidate(c, r) ==
    IF r.ok THEN Accept(c, r.hh, r.mm, r.title, r.desc, r.duration_min) ELSE c

\* from the title clean-up to duration_min, for a row with fields f and time
\* match m; needs_title: the row is skipped when its title is empty
Titled(title, desc, dur_cell, m, rowtext, needs_title) ==
    IF (needs_title /\ title = <<>>) \/ IsHeaderTitle(title) THEN Skip
    ELSE Candidate(m.hh, m.mm, title, desc, DurationMin(dur_cell, title, desc, rowtext))

RowCandidate(f, m, rowtext, needs_title) ==
    Titled(CleanText(f.title), CleanText(f.desc), f.dur_cell, m, rowtext, needs_title)

\* sorted(programs, key=lambda x: x["start"]): a stable sort
RECURSIVE InsertByStart(_, _)
InsertByStart(sorted, p) ==
    IF sorted = <<>> THEN <<p>>
    ELSE IF sorted[Len(sorted)].start <= p.start THEN Append(sorted, p)
    ELSE Append(InsertByStart(SubSeq(sorted, 1, Len(sorted) - 1), p), sorted[Len(sorted)])

RECURSIVE SortByStart(_)
SortByStart(programs) ==
    IF programs = <<>> THEN <<>>
    ELSE InsertByStart(SortByStart(SubSeq(programs, 1, Len(programs) - 1)),
                       programs[Len(programs)])

\* mutant: the stops are left as computed from the durations
InferStopsKept(programs) == programs

\* mutant: the loop stops one pair early, range(len(programs) - 2)
InferStopsShort(programs) ==
    [i \in 1..Len(programs) |->
        IF i < Len(programs) - 1 /\ programs[i + 1].start > programs[i].start
        THEN [programs[i] EXCEPT !.stop = programs[i + 1].start]
        ELSE programs[i]]

\* programs[i]["stop"] = programs[i + 1]["start"] when the next start is later
InferStops(programs) ==
    [i \in 1..Len(programs) |->
        IF i < Len(programs) /\ programs[i + 1].start > programs[i].start
        THEN [programs[i] EXCEPT !.stop = programs[i + 1].start]
        ELSE programs[i]]

\* the tail of every normalizer: sort, then infer the stops
Finish(programs) == InferStops(SortByStart(programs))

(***************************************************************************)
(* The documents the normalizers are run on.  A document is a list of rows *)
(* of cell texts; it is given to parse_html_table as a table, to           *)
(* parse_pipe_rows as pipe-delimited lines and to the time scan as lines   *)
(* of text.  Each row also records what it was written from: the clock     *)
(* hh:mm (None without a clock), the title, and the minutes of its         *)
(* explicit duration cell (None without one).                              *)
(***************************************************************************)
MaxRows == 3

Fmt2(n) == <<DigitChars[(n \div 10) + 1], DigitChars[(n % 10) + 1]>>

\* HH:MM as the page writes it
ClockText(hh, mm) == Fmt2(hh) \o <<":">> \o Fmt2(mm)

\* a row "HH:MM | title"
Row2(hh, mm, title) ==
    [hh |-> hh, mm |-> mm, title |-> title, dur |-> None,
     cells |-> <<ClockText(hh, mm), title>>]

\* a row "HH:MM | title | desc | duration" whose duration cell reads durtext
Row4(hh, mm, title, desc, durtext, dur) ==
    [hh |-> hh, mm |-> mm, title |-> title, dur |-> dur,
     cells |-> <<ClockText(hh, mm), title, desc, durtext>>]

\* a row of arbitrary cells, with the clock it contains (None: no clock)
RowOf(hh, mm, cells) ==
    [hh |-> hh, mm |-> mm, title |-> <<>>, dur |-> None, cells |-> cells]

TitleA == <<"A">>
TitleB == <<"B">>
TitleC == <<"C">>
TitleMovie == <<"M", "o", "v", "i", "e">>
TitleNews == <<"N", "e", "w", "s">>
TitleFilm == <<"F", "i", "l", "m">>

PlainRows ==
    { Row2(23, 30, TitleA), Row2(0, 15, TitleB), Row2(6, 0, TitleC),
      Row2(8, 0, TitleA), Row2(8, 30, TitleB) }

\* rows whose duration cell reads H:MM
HhmmRows ==
    { Row4(20, 0, TitleMovie, <<"d">>, <<"1", ":", "4", "5">>, 105),
      Row4(7, 30, TitleC, <<"d">>, <<"1", "0", ".", "0", "5">>, 605) }

\* rows whose duration cell reads a bare integer
MinuteRows ==
    { Row4(21, 0, TitleNews, <<"d">>, <<"0">>, 0),
      Row4(22, 0, TitleFilm, <<"d">>, <<"9", "0">>, 90) }

DurationRows == HhmmRows \cup MinuteRows

OddRows ==
    { \* the title cell holds only a URL
      RowOf(8, 0, <<ClockText(8, 0), <<"h", "t", "t", "p", ":", "/", "/", "x">>>>),
      \* a clock and nothing else
      RowOf(10, 0, <<ClockText(10, 0)>>),
      \* no clock
      RowOf(None, None, <<<<"x">>, <<"y">>>>),
      \* a heading repeated in a data row
      RowOf(8, 0, <<ClockText(8, 0), <<"T", "h", "ờ", "i", " ", "g", "i", "a", "n">>>>) }

RowPool == PlainRows \cup DurationRows \cup OddRows

\* the heading rows (th cells) a table may have
HeaderPool ==
    { <<<<"T", "h", "ờ", "i", " ", "g", "i", "a", "n">>, <<"T", "ê", "n">>>>,
      <<>> }

BaseDates == {0, 7}

Docs == UNION {[1..n -> RowPool] : n \in 0..MaxRows}

\* a row as a pipe-delimited line: "| c1 | c2 |"
PipeLine(cells) == <<"|", " ">> \o Join(cells, <<" ", "|", " ">>) \o <<" ", "|">>

\* a row as a line of text: "c1 c2"
TextLine(cells) == Join(cells, <<" ">>)

\* time tokens: an hour text, a separator and a minute text
TokenHours ==
    { <<"0">>, <<"7">>, <<"9">>, <<"0", "7">>, <<"1", "2">>, <<"1", "9">>,
      <<"2", "3">>, <<"2", "4">>, <<"2", "9">> }

TokenSeps == {":", ".", "h", "-"}

TokenMinutes == { <<"0", "0">>, <<"3", "0">>, <<"5", "9">>, <<"6", "0">>, <<"5">> }

Tokens == [h : TokenHours, sep : TokenSeps, m : TokenMinutes]

TokenText(t) == t.h \o <<t.sep>> \o t.m

\* a token as the schedule pages are read: hour 0 to 23 in one or two digits,
\* minute 00 to 59 in two digits, separated by ':', '.' or 'h'
IsClockToken(t) ==
    /\ Len(t.h) \in {1, 2} /\ IntOf(t.h) <= 23
    /\ Len(t.m) = 2 /\ IntOf(t.m) <= 59
    /\ t.sep \in {":", ".", "h"}

\* a row "token | A", with the clock the token stands for (None: no clock token)
TokenRow(t) ==
    [hh |-> IF IsClockToken(t) THEN IntOf(t.h) ELSE None,
     mm |-> IF IsClockToken(t) THEN IntOf(t.m) ELSE None,
     title |-> TitleA, dur |-> None,
     cells |-> <<TokenText(t), TitleA>>]

\* a row "token1 token2 | A", with the clock of the first clock token
TokenPairRow(t, u) ==
    [hh |-> IF IsClockToken(t) THEN IntOf(t.h) ELSE IntOf(u.h),
     mm |-> IF IsClockToken(t) THEN IntOf(t.m) ELSE IntOf(u.m),
     title |-> TitleA, dur |-> None,
     cells |-> <<TokenText(t) \o <<" ">> \o TokenText(u), TitleA>>]

NineOClock == [h |-> <<"0", "9">>, sep |-> ":", m |-> <<"0", "0">>]

\* the pages of one row with one token, or with a token before 09:00
TokenDocs ==
    {<<TokenRow(t)>> : t \in Tokens}
    \cup {<<TokenPairRow(t, NineOClock)>> :
             t \in [h : {<<"8">>, <<"2", "4">>}, sep : TokenSeps, m : {<<"3", "0">>}]}

\* the rows of the pages boomerang.main is run on
TitleAmp == <<"A", "&", "B">>

MainRowPool ==
    { Row2(8, 0, TitleA), Row2(8, 30, TitleB), Row2(9, 0, TitleAmp),
      RowOf(8, 0, <<ClockText(8, 0), <<"h", "t", "t", "p", ":", "/", "/", "x">>>>),
      RowOf(10, 0, <<ClockText(10, 0)>>),
      RowOf(None, None, <<<<"x">>, <<"y">>>>) }

MainDocs == UNION {[1..n -> MainRowPool] : n \in 0..MaxRows}

\* how the page lays the rows out: an HTML table, pipe-delimited lines of
\* text, or plain lines of text
Layouts == {"table", "pipe", "text"}

PoolCells == {r.cells : r \in RowPool \cup MainRowPool}
PoolPipeLines == [cells \in PoolCells |-> PipeLine(cells)]
PoolTextLines == [cells \in PoolCells |-> TextLine(cells)]

\* the td texts of the table rows
AsTable(d) == [k \in 1..Len(d) |-> d[k].cells]

\* the rows as pipe-delimited lines
AsPipeLines(d) ==
    [k \in 1..Len(d) |->
        IF d[k].cells \in PoolCells THEN PoolPipeLines[d[k].cells] ELSE PipeLine(d[k].cells)]

\* the rows as lines of text
AsTextLines(d) ==
    [k \in 1..Len(d) |->
        IF d[k].cells \in PoolCells THEN PoolTextLines[d[k].cells] ELSE TextLine(d[k].cells)]

\* a text as the page source writes it: & < > as character references
RECURSIVE HtmlEscape(_)
HtmlEscape(s) ==
    IF s = <<>> THEN <<>>
    ELSE (CASE Head(s) = "&" -> <<"&", "a", "m", "p", ";">>
            [] Head(s) = "<" -> <<"&", "l", "t", ";">>
            [] Head(s) = ">" -> <<"&", "g", "t", ";">>
            [] OTHER -> <<Head(s)>>) \o HtmlEscape(Tail(s))

\* html.unescape(s) from index i on, for the references &amp; &lt; &gt;
RECURSIVE HtmlUnescapeFrom(_, _)
HtmlUnescapeFrom(s, i) ==
    IF i > Len(s) THEN <<>>
    ELSE IF Slice(s, i, i + 4) = <<"&", "a", "m", "p", ";">>
         THEN <<"&">> \o HtmlUnescapeFrom(s, i + 5)
    ELSE IF Slice(s, i, i + 3) = <<"&", "l", "t", ";">>
         THEN <<"<">> \o HtmlUnescapeFrom(s, i + 4)
    ELSE IF Slice(s, i, i + 3) = <<"&", "g", "t", ";">>
         THEN <<">">> \o HtmlUnescapeFrom(s, i + 4)
    ELSE <<s[i]>> \o HtmlUnescapeFrom(s, i + 1)

HtmlUnescape(s) == HtmlUnescapeFrom(s, 1)

\* html_unesc.splitlines() for a page given by its lines
UnescapeLines(lines) == [k \in 1..Len(lines) |-> HtmlUnescape(lines[k])]

TagOpen(name) == <<"<">> \o name \o <<">">>
TagClose(name) == <<"<", "/">> \o name \o <<">">>

\* <tr><td>c1</td><td>c2</td></tr>, with th for td in the heading row
TrLine(tag, cells) ==
    TagOpen(<<"t", "r">>)
    \o Join([k \in 1..Len(cells) |->
                TagOpen(tag) \o HtmlEscape(cells[k]) \o TagClose(tag)], <<>>)
    \o TagClose(<<"t", "r">>)

\* the rule line under the heading of a pipe table: |---|---|
RuleLine(cells) ==
    <<"|">> \o Join([k \in 1..Len(cells) |-> <<"-", "-", "-", "|">>], <<>>)

\* the lines of html_raw for a page with heading cells h and rows d
HtmlTableLines(h, d) ==
    <<TagOpen(<<"t", "a", "b", "l", "e">>)>>
    \o (IF h = <<>> THEN <<>> ELSE <<TrLine(<<"t", "h">>, h)>>)
    \o [k \in 1..Len(d) |-> TrLine(<<"t", "d">>, d[k].cells)]
    \o <<TagClose(<<"t", "a", "b", "l", "e">>)>>

HtmlPipeLines(h, d) ==
    (IF h = <<>> THEN <<>> ELSE <<HtmlEscape(PipeLine(h)), RuleLine(h)>>)
    \o [k \in 1..Len(d) |-> HtmlEscape(PipeLine(d[k].cells))]

HtmlTextLines(h, d) ==
    (IF h = <<>> THEN <<>> ELSE <<HtmlEscape(TextLine(h))>>)
    \o [k \in 1..Len(d) |-> HtmlEscape(TextLine(d[k].cells))]

HtmlRaw(h, d, lay) ==
    CASE lay = "table" -> HtmlTableLines(h, d)
      [] lay = "pipe"  -> HtmlPipeLines(h, d)
      [] lay = "text"  -> HtmlTextLines(h, d)

\* what BeautifulSoup finds in the page: the th texts and the td texts of the
\* rows of its table, nothing on a page without table
SoupThs(h, lay) == IF lay = "table" THEN h ELSE <<>>
SoupTrs(d, lay) == IF lay = "table" THEN AsTable(d) ELSE <<>>


(***************************************************************************)
(* parse_html_table                                                        *)
(***************************************************************************)
\* header_text: the first six th/td cells of the table, lower-cased
HeaderText(all_cells) ==
    Join([k \in 1..(IF Len(all_cells) < 6 THEN Len(all_cells) ELSE 6) |->
             Lower(all_cells[k])], <<" ">>)

\* any(k in header_text for k in ("thời gian", "thoi gian", "time", "thoi"))
IsScheduleHeader(header_text) ==
    \/ Contains(header_text, <<"t", "h", "ờ", "i", " ", "g", "i", "a", "n">>)
    \/ Contains(header_text, <<"t", "h", "o", "i", " ", "g", "i", "a", "n">>)
    \/ Contains(header_text, <<"t", "i", "m", "e">>)
    \/ Contains(header_text, <<"t", "h", "o", "i">>)

\* the row whose time cell has index time_idx
TableCandidateAt(cells, time_idx) ==
    IF time_idx = None THEN Skip
    ELSE RowCandidate(RowFields(cells, time_idx), TimeSearch(At0(cells, time_idx)),
                      Join(cells, <<" ">>), TRUE)

\* the body of `for tr in tbl.find_all("tr")` for one row of td texts, up to
\* duration_min
TableCandidate(cells) ==
    IF cells = <<>> THEN Skip ELSE TableCandidateAt(cells, TimeIdx(cells))

\* TableCandidate, tabulated once for the rows of the pool
TableCandidates == [cells \in PoolCells |-> TableCandidate(cells)]

TableCandidateOf(cells) ==
    IF cells \in PoolCells THEN TableCandidates[cells] ELSE TableCandidate(cells)

\* the body of `for tr in tbl.find_all("tr")` for one row of td texts
TableRow(c, cells) == AcceptCandidate(c, TableCandidateOf(cells))

RECURSIVE TableRows(_, _)
TableRows(c, trs) ==
    IF trs = <<>> THEN c ELSE TableRows(TableRow(c, Head(trs)), Tail(trs))

RECURSIVE Flatten(_)
Flatten(seqs) == IF seqs = <<>> THEN <<>> ELSE Head(seqs) \o Flatten(Tail(seqs))

\* parse_html_table on a document with one table: ths are the texts of its th
\* cells (its heading row), trs the td texts of its other rows
ParseHtmlTable(ths, trs, base_date) ==
    IF IsScheduleHeader(HeaderText(ths \o Flatten(trs)))
    THEN Finish(TableRows(InitCursor(base_date), trs).programs)
    ELSE Finish(<<>>)

(***************************************************************************)
(* parse_pipe_rows                                                         *)
(***************************************************************************)
\* the index of the first character at or after i that is not whitespace
RECURSIVE SkipSpaces(_, _)
SkipSpaces(s, i) == IF i <= Len(s) /\ IsSpace(s[i]) THEN SkipSpaces(s, i + 1) ELSE i

\* -{1,}\s* from index d: the index after it, 0 when there is no dash at d
DashesAt(s, d) ==
    IF d <= Len(s) /\ s[d] = "-" THEN SkipSpaces(s, RunEnd({"-"}, s, d) + 1) ELSE 0

\* the index after \s*-{1,}\s* matched from i, 0 when it does not match
DashesFrom(s, i) == DashesAt(s, SkipSpaces(s, i))

\* \|\s*-{1,}\s* from index b: the index after it, 0 when it does not match
RuleCellAt(s, b) ==
    IF b >= 1 /\ b <= Len(s) /\ s[b] = "|" THEN DashesFrom(s, b + 1) ELSE 0

\* re.match(r'^\s*\|\s*-{1,}\s*(\|\s*-{1,}\s*)+', ln)
IsRuleLine(ln) == RuleCellAt(ln, RuleCellAt(ln, SkipSpaces(ln, 1))) > 0

\* the line whose non-empty parts are parts, with the time match m
PipeMatched(ln, parts, time_idx, m) ==
    IF ~m.found THEN Skip ELSE RowCandidate(RowFields(parts, time_idx), m, ln, FALSE)

\* the time token: of the time cell, else of the whole line
PipeTimed(ln, parts, time_idx) ==
    PipeMatched(ln, parts, time_idx,
                IF time_idx # None THEN TimeSearch(At0(parts, time_idx))
                ELSE TimeSearch(ln))

PipeParts(ln, parts) ==
    IF parts = <<>> THEN Skip ELSE PipeTimed(ln, parts, TimeIdx(parts))

\* the body of `for ln in cleaned` for one line, up to duration_min
PipeCandidate(ln) == PipeParts(ln, NonEmptyParts(SplitPipe(ln)))

\* PipeCandidate, tabulated once for the lines of the pool
PoolPipeLineSet == {PoolPipeLines[cells] : cells \in PoolCells}

PipeCandidates == [ln \in PoolPipeLineSet |-> PipeCandidate(ln)]

PipeCandidateOf(ln) ==
    IF ln \in PoolPipeLineSet THEN PipeCandidates[ln] ELSE PipeCandidate(ln)

\* the body of `for ln in cleaned` for one line
PipeRow(c, ln) == AcceptCandidate(c, PipeCandidateOf(ln))

RECURSIVE PipeRows(_, _)
PipeRows(c, lns) ==
    IF lns = <<>> THEN c ELSE PipeRows(PipeRow(c, Head(lns)), Tail(lns))

\* cleaned: the lines that are no rule line, stripped
Cleaned(rows) == StripAll(SelectSeq(rows, LAMBDA ln : ~IsRuleLine(ln)))

ParsePipeRows(rows, base_date) ==
    Finish(PipeRows(InitCursor(base_date), Cleaned(rows)).programs)

(***************************************************************************)
(* fallback_time_scan_unescaped                                            *)
(***************************************************************************)
\* title: the text after the token without its URLs, else the text before it
ScanTitled(m, after, before) ==
    Candidate(m.hh, m.mm, IF after = <<>> THEN before ELSE after, <<>>,
              DEFAULT_DURATION_MIN)

ScanMatched(ln, m) ==
    IF ~m.found THEN Skip
    ELSE ScanTitled(m, CleanText(Strip(Slice(ln, m.last + 1, Len(ln)))),
                    Strip(Slice(ln, 1, m.first - 1)))

\* the body of `for ln in lines` for one line, up to the title
ScanCandidate(ln) == ScanMatched(ln, TimeSearch(ln))

\* ScanCandidate, tabulated once for the lines of the pool
PoolTextLineSet == {PoolTextLines[cells] : cells \in PoolCells}

ScanCandidates == [ln \in PoolTextLineSet |-> ScanCandidate(ln)]

ScanCandidateOf(ln) ==
    IF ln \in PoolTextLineSet THEN ScanCandidates[ln] ELSE ScanCandidate(ln)

\* the body of `for ln in lines` for one line
ScanRow(c, ln) == AcceptCandidate(c, ScanCandidateOf(ln))

RECURSIVE ScanRows(_, _)
ScanRows(c, lns) ==
    IF lns = <<>> THEN c ELSE ScanRows(ScanRow(c, Head(lns)), Tail(lns))

\* lines: the lines of the text in which TIME_RE matches, stripped
TimeLines(text_lines) == StripAll(SelectSeq(text_lines, LAMBDA ln : TimeSearch(ln).found))

FallbackTimeScanUnescaped(text_lines, base_date) ==
    Finish(ScanRows(InitCursor(base_date), TimeLines(text_lines)).programs)

(***************************************************************************)
(* boomerang.py: extract_pipe_table_from_html, write_xml and main          *)
(***************************************************************************)
CHANNEL_ID == "cartoonito"

\* markers of extract_pipe_table_from_html
Markers ==
    << <<"|", " ", "T", "h", "ờ", "i", " ", "g", "i", "a", "n">>,
       <<"|", "T", "h", "ờ", "i", " ", "g", "i", "a", "n">>,
       <<"|", " ", "T", "i", "m", "e">>,
       <<"|", " ", "T", "h", "o", "i", " ", "g", "i", "a", "n">>,
       <<"|", "T", "h", "o", "i", " ", "g", "i", "a", "n">> >>

\* '|' in ln
HasPipe(ln) == \E k \in 1..Len(ln) : ln[k] = "|"

\* html_unesc.find(m) != -1 for one of the markers
HasMarker(lines) ==
    \E m \in 1..Len(Markers) : \E k \in 1..Len(lines) : Contains(lines[k], Markers[m])

\* len(rows) >= 3 and any(TIME_RE.search(r) for r in rows)
IsPipeBlock(rows) == Len(rows) >= 3 /\ \E k \in 1..Len(rows) : TimeSearch(rows[k]).found

\* the rows of the block around a marker; the page is shorter than the 2000
\* characters kept before the marker and the 40000 kept after it, so the block
\* is the whole page
MarkerRows(lines) == StripAll(SelectSeq(lines, HasPipe))

\* the index of the last line of the run of lines with a pipe that starts at i
RECURSIVE PipeRunEnd(_, _)
PipeRunEnd(lines, i) ==
    IF i + 1 <= Len(lines) /\ HasPipe(lines[i + 1]) THEN PipeRunEnd(lines, i + 1) ELSE i

\* if len(block) >= 3 and any(...): if len(block) > best_len: best = block
BetterOf(best, block) ==
    IF IsPipeBlock(block) /\ Len(block) > Len(best) THEN block ELSE best

\* the while loop over all_lines from index i with the best block so far; j is
\* the last line of the run that starts at i
RECURSIVE BestRunFrom(_, _, _)
BestRunTo(lines, i, j, best) ==
    BestRunFrom(lines, j + 1, BetterOf(best, StripAll(SubSeq(lines, i, j))))

BestRunFrom(lines, i, best) ==
    IF i > Len(lines) THEN best
    ELSE IF HasPipe(lines[i]) THEN BestRunTo(lines, i, PipeRunEnd(lines, i), best)
    ELSE BestRunFrom(lines, i + 1, best)

\* extract_pipe_table_from_html, on the lines of the unescaped page
MarkerBlockOr(lines, rows) ==
    IF HasMarker(lines) /\ IsPipeBlock(rows) THEN rows ELSE BestRunFrom(lines, 1, <<>>)

ExtractPipeTableFromHtml(lines) == MarkerBlockOr(lines, MarkerRows(lines))

\* rows = extract_pipe_table_from_html(html_raw); if rows: parse_pipe_rows(rows)
PipeRowsParsed(rows, base) == IF rows # <<>> THEN ParsePipeRows(rows, base) ELSE <<>>

PipeStrategy(html_raw, base) ==
    PipeRowsParsed(ExtractPipeTableFromHtml(UnescapeLines(html_raw)), base)

\* fallback_time_scan_unescaped(html_unesc, base_date)
ScanStrategy(html_raw, base) == FallbackTimeScanUnescaped(UnescapeLines(html_raw), base)

\* mutant: the next strategy is run whatever the one before it returned
OrElseAlways(progs, next) == next

\* if not programs: programs = <the next strategy>
OrElse(progs, next) == IF progs = <<>> THEN next ELSE progs

\* the file write_xml writes: the channel and a programme for every entry with
\* a start, a stop and a non-empty title
WriteXml(progs) ==
    [channel    |-> CHANNEL_ID,
     programmes |-> SelectSeq(progs, LAMBDA p : p.title # <<>>)]

\* no output file
NoFile == [channel |-> "", programmes |-> <<>>]

(***************************************************************************)
(* State.  script is the program that runs.  For boomerang.py: ths, doc    *)
(* and layout are the page, base_date the anchor date, pc the position in  *)
(* the program, programs the programme list and xml the output file.  For  *)
(* the other scripts page is what the fetched page holds and base_date is  *)
(* today.                                                                  *)
(* Under Spec one normalizer of boomerang.py is run on the rows; under     *)
(* SpecScripts the main() of a single-channel script runs.                 *)
(***************************************************************************)
VARIABLES script, ths, doc, layout, page, base_date, pc, programs, xml,
          programmes_count

vars == <<script, ths, doc, layout, page, base_date, pc, programs, xml,
         programmes_count>>

pageVars == <<script, ths, doc, layout, page, base_date>>

Init ==
    /\ script = "normalizer"
    /\ ths \in HeaderPool
    /\ doc \in Docs
    /\ layout = "rows"
    /\ page = <<>>
    /\ base_date \in BaseDates
    /\ pc = "start"
    /\ programs = <<>>
    /\ xml = NoFile
    /\ programmes_count = None

RunTable ==
    /\ pc = "start"
    /\ programs' = ParseHtmlTable(ths, AsTable(doc), base_date)
    /\ pc' = "table"
    /\ UNCHANGED <<pageVars, programmes_count, xml>>

RunPipe ==
    /\ pc = "start"
    /\ programs' = ParsePipeRows(AsPipeLines(doc), base_date)
    /\ pc' = "pipe"
    /\ UNCHANGED <<pageVars, programmes_count, xml>>

RunScan ==
    /\ pc = "start"
    /\ programs' = FallbackTimeScanUnescaped(AsTextLines(doc), base_date)
    /\ pc' = "scan"
    /\ UNCHANGED <<pageVars, programmes_count, xml>>

Next == RunTable \/ RunPipe \/ RunScan

Spec == Init /\ [][Next]_vars

\* one normalizer on a page of one row that holds a time token
InitTokens ==
    /\ script = "normalizer"
    /\ ths \in HeaderPool \ {<<>>}
    /\ doc \in TokenDocs
    /\ layout = "rows"
    /\ page = <<>>
    /\ base_date \in BaseDates
    /\ pc = "start"
    /\ programs = <<>>
    /\ xml = NoFile
    /\ programmes_count = None

SpecTokens == InitTokens /\ [][Next]_vars

(***************************************************************************)
(* boomerang.main                                                          *)
(***************************************************************************)
InitBoomerang ==
    /\ script = "boomerang"
    /\ ths \in HeaderPool
    /\ doc \in MainDocs
    /\ layout \in Layouts
    /\ page = <<>>
    /\ base_date \in BaseDates
    /\ pc = "start"
    /\ programs = <<>>
    /\ xml = NoFile
    /\ programmes_count = None

\* fetch_html raises: the empty guide is written and the program exits
BoomerangFetchFailed ==
    /\ script = "boomerang" /\ pc = "start"
    /\ xml' = WriteXml(<<>>)
    /\ pc' = "failed"
    /\ UNCHANGED <<pageVars, programmes_count, programs>>

\* 1) programs = parse_html_table(soup, base_date)
BoomerangTryTable ==
    /\ script = "boomerang" /\ pc = "start"
    /\ programs' = ParseHtmlTable(SoupThs(ths, layout), SoupTrs(doc, layout), base_date)
    /\ pc' = "try_pipe"
    /\ UNCHANGED <<pageVars, programmes_count, xml>>

\* 2) if not programs: the pipe table of the raw page
BoomerangTryPipe ==
    /\ script = "boomerang" /\ pc = "try_pipe"
    /\ programs' = OrElse(programs, PipeStrategy(HtmlRaw(ths, doc, layout), base_date))
    /\ pc' = "try_scan"
    /\ UNCHANGED <<pageVars, programmes_count, xml>>

\* 3) if not programs: the time scan of the unescaped page
BoomerangTryScan ==
    /\ script = "boomerang" /\ pc = "try_scan"
    /\ programs' = OrElse(programs, ScanStrategy(HtmlRaw(ths, doc, layout), base_date))
    /\ pc' = "write"
    /\ UNCHANGED <<pageVars, programmes_count, xml>>

\* write_xml(programs)
BoomerangWrite ==
    /\ script = "boomerang" /\ pc = "write"
    /\ xml' = WriteXml(programs)
    /\ pc' = "done"
    /\ UNCHANGED <<pageVars, programmes_count, programs>>

NextBoomerang ==
    \/ BoomerangFetchFailed
    \/ BoomerangTryTable
    \/ BoomerangTryPipe
    \/ BoomerangTryScan
    \/ BoomerangWrite

(***************************************************************************)
(* atv3kg2.py                                                              *)
(***************************************************************************)
\* s.split(ch) from index i on, the current part starting at index from
RECURSIVE SplitOnFrom(_, _, _, _)
SplitOnFrom(s, ch, i, from) ==
    IF i > Len(s) THEN <<Slice(s, from, Len(s))>>
    ELSE IF s[i] = ch
         THEN <<Slice(s, from, i - 1)>> \o SplitOnFrom(s, ch, i + 1, i + 1)
    ELSE SplitOnFrom(s, ch, i + 1, from)

SplitOn(s, ch) == SplitOnFrom(s, ch, 1, 1)

\* a raised exception, as the value of the call
Raised == [ok |-> FALSE]

Returned(v) == [ok |-> TRUE, value |-> v]

AllDigits(s) == s # <<>> /\ \A k \in 1..Len(s) : IsDigit(s[k])

\* int() of a stripped text: an optional sign, then digits
IntOfSigned(s) ==
    IF s # <<>> /\ Head(s) = "-"
    THEN IF AllDigits(Tail(s)) THEN Returned(0 - IntOf(Tail(s))) ELSE Raised
    ELSE IF s # <<>> /\ Head(s) = "+"
    THEN IF AllDigits(Tail(s)) THEN Returned(IntOf(Tail(s))) ELSE Raised
    ELSE IF AllDigits(s) THEN Returned(IntOf(s)) ELSE Raised

\* int(text): whitespace around the literal is ignored
IntLiteral(text) == IntOfSigned(Strip(text))

\* datetime.combine(today, time(hour=hh, minute=mm)): time() raises outside
\* 0..23 and 0..59
DtOfHourMinute(today, hh, mm) ==
    IF hh.ok /\ mm.ok /\ hh.value \in 0..23 /\ mm.value \in 0..59
    THEN Returned(Combine(today, hh.value, mm.value))
    ELSE Raised

\* mutant: more than two parts are accepted, the first two are used
MakeDtOfPartsLenient(today, parts) ==
    IF Len(parts) < 2 THEN Raised
    ELSE DtOfHourMinute(today, IntLiteral(parts[1]), IntLiteral(parts[2]))

\* make_dt_for from parts = s.split(":") on
MakeDtOfParts(today, parts) ==
    IF Len(parts) # 2 THEN Raised
    ELSE DtOfHourMinute(today, IntLiteral(parts[1]), IntLiteral(parts[2]))

\* make_dt_for(today, hhmm_str)
MakeDtFor(today, hhmm_str) == MakeDtOfParts(today, SplitOn(Strip(hhmm_str), ":"))

\* a div.tbl-row of the page: its .time and .program texts (absent: the row
\* has no such element), and the clock its time text stands for (None when it
\* is not two ':'-separated integers that form an hour and a minute)
TblRow(time_text, prog_text, hh, mm) ==
    [has_time |-> TRUE, time |-> time_text, has_program |-> TRUE, program |-> prog_text,
     hh |-> hh, mm |-> mm]

TblRowPool ==
    { TblRow(<<"0", "5", ":", "1", "5">>, TitleA, 5, 15),
      TblRow(<<"5", ":", "1", "5">>, TitleB, 5, 15),
      TblRow(<<"2", "3", ":", "5", "9">>, TitleC, 23, 59),
      TblRow(<<"8", ":", " ", "5">>, TitleB, 8, 5),
      TblRow(<<"2", "4", ":", "0", "0">>, TitleA, None, None),
      TblRow(<<"1", "2", ":", "6", "0">>, TitleB, None, None),
      TblRow(<<"7", "h", "3", "0">>, TitleC, None, None),
      TblRow(<<"0", "8", ":", "0", "0", ":", "3", "0">>, TitleA, None, None),
      [TblRow(<<"0", "6", ":", "0", "0">>, <<>>, 6, 0) EXCEPT !.has_program = FALSE] }

TblPages == UNION {[1..n -> TblRowPool] : n \in 0..MaxRows}

\* (time_text, prog_text) of the rows, from get_text(strip=True)
RowTexts(rows) ==
    [k \in 1..Len(rows) |->
        [time_text |-> Strip(rows[k].time), title |-> Strip(rows[k].program)]]

\* parse_rows: the rows that have both elements
ParseRows(rows) == RowTexts(SelectSeq(rows, LAMBDA r : r.has_time /\ r.has_program))

\* prog_list: (dt, title) of the rows on whose time text make_dt_for returns
RECURSIVE ProgList(_, _)
ProgListWith(today, dt, title, rest) ==
    IF dt.ok THEN <<[start |-> dt.value, title |-> title]>> \o ProgList(today, rest)
    ELSE ProgList(today, rest)

ProgList(today, rows) ==
    IF rows = <<>> THEN <<>>
    ELSE ProgListWith(today, MakeDtFor(today, Head(rows).time_text), Head(rows).title,
                      Tail(rows))

\* build_xml(programmes, for_date): stop is the next start, midnight of the
\* next day for the last programme
Atv3BuildXml(programmes, for_date) ==
    [channel    |-> "atv3kg2",
     programmes |-> [i \in 1..Len(programmes) |->
                        [start |-> programmes[i].start,
                         stop  |-> IF i + 1 <= Len(programmes)
                                   THEN programmes[i + 1].start
                                   ELSE Combine(for_date + 1, 0, 0),
                         title |-> programmes[i].title]]]

InitAtv3 ==
    /\ script = "atv3kg2"
    /\ ths = <<>> /\ doc = <<>> /\ layout = "rows"
    /\ page \in TblPages
    /\ base_date \in BaseDates
    /\ pc = "start"
    /\ programs = <<>>
    /\ xml = NoFile
    /\ programmes_count = None

\* fetch_html_for raises: sys.exit(1)
Atv3FetchFailed ==
    /\ script = "atv3kg2" /\ pc = "start"
    /\ pc' = "failed"
    /\ UNCHANGED <<pageVars, programmes_count, programs, xml>>

\* if not rows: the guide with the channel only
Atv3NoRows ==
    /\ script = "atv3kg2" /\ pc = "start"
    /\ ParseRows(page) = <<>>
    /\ xml' = [channel |-> "atv3kg2", programmes |-> <<>>]
    /\ pc' = "done"
    /\ UNCHANGED <<pageVars, programmes_count, programs>>

\* the rows to datetimes, the sort, build_xml and the write
Atv3Build ==
    /\ script = "atv3kg2" /\ pc = "start"
    /\ ParseRows(page) # <<>>
    /\ programs' = SortByStart(ProgList(base_date, ParseRows(page)))
    /\ xml' = Atv3BuildXml(programs', base_date)
    /\ pc' = "done"
    /\ UNCHANGED <<pageVars, programmes_count>>

NextAtv3 == Atv3FetchFailed \/ Atv3NoRows \/ Atv3Build

(***************************************************************************)
(* unbeaten.py                                                             *)
(***************************************************************************)
\* %I of strptime: 1[0-2]|0[1-9]|[1-9]
IsHour12(h) ==
    \/ Len(h) = 1 /\ IsDigit(h[1]) /\ h[1] # "0"
    \/ Len(h) = 2 /\ h[1] = "1" /\ h[2] \in {"0", "1", "2"}
    \/ Len(h) = 2 /\ h[1] = "0" /\ IsDigit(h[2]) /\ h[2] # "0"

\* %M of strptime at the head of s: [0-5]\d|\d, the number of digits taken
MinuteLen(s) ==
    IF Len(s) >= 2 /\ s[1] \in {"0", "1", "2", "3", "4", "5"} /\ IsDigit(s[2]) THEN 2
    ELSE IF Len(s) >= 1 /\ IsDigit(s[1]) THEN 1
    ELSE 0

\* " %p" of strptime: whitespace, then am or pm in either case, to the end
IsMeridiem(s) ==
    /\ Len(s) >= 3
    /\ \A k \in 1..(Len(s) - 2) : IsSpace(s[k])
    /\ Lower(Slice(s, Len(s) - 1, Len(s))) \in {<<"a", "m">>, <<"p", "m">>}

\* the minutes since midnight of hour h, minute m, before or after noon
Clock12(h, m, pm) == ((h % 12) + (IF pm THEN 12 ELSE 0)) * 60 + m

\* strptime on the hour text h and the text after the colon, whose minute takes
\* n digits
Time12Of(h, rest, n) ==
    IF IsHour12(h) /\ n > 0 /\ IsMeridiem(Slice(rest, n + 1, Len(rest)))
    THEN Returned(Clock12(IntOf(h), IntOf(Slice(rest, 1, n)),
                          Lower(<<rest[Len(rest) - 1]>>) = <<"p">>))
    ELSE Raised

Time12OfParts(parts) ==
    IF Len(parts) # 2 THEN Raised ELSE Time12Of(parts[1], parts[2], MinuteLen(parts[2]))

\* datetime.strptime(t, "%I:%M %p"): the minutes since midnight
StrpTime12(t) == Time12OfParts(SplitOn(t, ":"))

\* astimezone from America/New_York to Asia/Ho_Chi_Minh for a datetime of the
\* year 1900: -05:00 to +07:06:30, 12 h 06 min 30 s later; the 30 seconds are
\* carried along by every later step and are left out of the model
UsToVnMinutes == 726

\* dt_us.astimezone(TZ_VN).replace(year, month, day of today)
DtVn(today, us_clock) == today * MinutesPerDay + ((us_clock + UsToVnMinutes) % MinutesPerDay)

\* dt_vn.hour
HourOf(dt) == (dt % MinutesPerDay) \div 60

\* mutant: no early-hours correction
EarlyHoursKept(dt_vn) == dt_vn

\* if dt_vn.hour < 6: dt_vn += timedelta(days=1)
EarlyHours(dt_vn) == IF HourOf(dt_vn) < 6 THEN dt_vn + MinutesPerDay ELSE dt_vn

\* a li.listing of the page: its .listingTime and .listingTitle texts
Listing(time_text, title) ==
    [has_time |-> TRUE, time |-> time_text, has_title |-> TRUE, title |-> title]

ListingPool ==
    { Listing(<<"2", ":", "0", "0", " ", "P", "M">>, TitleA),
      Listing(<<"4", ":", "0", "0", " ", "P", "M">>, TitleB),
      Listing(<<"0", "5", ":", "3", "0", " ", "p", "m">>, TitleC),
      Listing(<<"6", ":", "0", "0", " ", "P", "M">>, TitleA),
      Listing(<<"1", "2", ":", "0", "0", " ", "A", "M">>, TitleB),
      Listing(<<"1", "1", ":", "3", "0", " ", "A", "M">>, TitleC),
      Listing(<<"1", "3", ":", "0", "0", " ", "P", "M">>, TitleA),
      [Listing(<<"9", ":", "0", "5", " ", "P", "M">>, <<>>) EXCEPT !.has_title = FALSE] }

ListingPages == UNION {[1..n -> ListingPool] : n \in 0..MaxRows}

\* the loop of parse over the items
RECURSIVE UnbeatenItems(_, _)
UnbeatenItem(today, item, t, rest) ==
    IF ~t.ok THEN UnbeatenItems(today, rest)
    ELSE <<[start |-> EarlyHours(DtVn(today, t.value)), title |-> Strip(item.title)]>>
         \o UnbeatenItems(today, rest)

UnbeatenItems(today, items) ==
    IF items = <<>> THEN <<>>
    ELSE IF ~Head(items).has_time \/ ~Head(items).has_title
         THEN UnbeatenItems(today, Tail(items))
    ELSE UnbeatenItem(today, Head(items), StrpTime12(Strip(Head(items).time)), Tail(items))

\* unbeaten.parse
UnbeatenParse(today, items) == SortByStart(UnbeatenItems(today, items))

\* unbeaten.build_xml: stop is the next start, 23:59 of its own day for the last
UnbeatenBuildXml(programmes) ==
    [channel    |-> "unbeaten",
     programmes |-> [i \in 1..Len(programmes) |->
                        [start |-> programmes[i].start,
                         stop  |-> IF i + 1 <= Len(programmes)
                                   THEN programmes[i + 1].start
                                   ELSE Combine(DateOf(programmes[i].start), 23, 59),
                         title |-> programmes[i].title]]]

InitUnbeaten ==
    /\ script = "unbeaten"
    /\ ths = <<>> /\ doc = <<>> /\ layout = "rows"
    /\ page \in ListingPages
    /\ base_date \in BaseDates
    /\ pc = "start"
    /\ programs = <<>>
    /\ xml = NoFile
    /\ programmes_count = None

\* fetch_html raises: sys.exit(1)
UnbeatenFetchFailed ==
    /\ script = "unbeaten" /\ pc = "start"
    /\ pc' = "failed"
    /\ UNCHANGED <<pageVars, programmes_count, programs, xml>>

\* parse, build_xml and the write
UnbeatenMain ==
    /\ script = "unbeaten" /\ pc = "start"
    /\ programs' = UnbeatenParse(base_date, page)
    /\ xml' = UnbeatenBuildXml(programs')
    /\ pc' = "done"
    /\ UNCHANGED <<pageVars, programmes_count>>

NextUnbeaten == UnbeatenFetchFailed \/ UnbeatenMain

(***************************************************************************)
(* redbulltv.py                                                            *)
(***************************************************************************)
\* Asia/Ho_Chi_Minh is UTC+7
VnOffsetMinutes == 420

\* an item of the JSON: start and end in minutes UTC, each with a flag telling
\* whether its text is present and an ISO datetime, title and description
EpgItem(start, end, title) ==
    [start_ok |-> TRUE, end_ok |-> TRUE, start |-> start, end |-> end,
     title |-> title, description |-> <<>>]

EpgItemPool ==
    { \* 01:00 to 02:00 of day 0, local time
      EpgItem(60 - VnOffsetMinutes, 120 - VnOffsetMinutes, TitleA),
      \* 12:00 to 13:00 of day 7, local time
      EpgItem(7 * MinutesPerDay + 300, 7 * MinutesPerDay + 360,
              <<" ">> \o TitleB \o <<" ">>),
      \* 23:30 of day 0 UTC, which is day 1 local time
      EpgItem(1410, 1440, TitleC),
      \* 23:30 of day 0 to 00:30 of day 1, local time
      EpgItem(1410 - VnOffsetMinutes, 1470 - VnOffsetMinutes, TitleB),
      [EpgItem(0, 0, TitleA) EXCEPT !.start_ok = FALSE],
      [EpgItem(60 - VnOffsetMinutes, 0, TitleC) EXCEPT !.end_ok = FALSE] }

\* the response: the request or the JSON decoding failed, the JSON has no
\* "items", or it has this list of items
EpgResponses ==
    {[kind |-> "error", items |-> <<>>], [kind |-> "no_items", items |-> <<>>]}
    \cup {[kind |-> "items", items |-> its] :
            its \in UNION {[1..n -> EpgItemPool] : n \in 0..MaxRows}}

\* the entries appended for the items that passed the two tests of the loop
RedbullEntries(kept) ==
    [k \in 1..Len(kept) |->
        [start |-> kept[k].start + VnOffsetMinutes,
         stop  |-> kept[k].end + VnOffsetMinutes,
         title |-> Strip(kept[k].title),
         desc  |-> Strip(kept[k].description)]]

\* mutant: an item that stops on another local date is skipped too
KeepItemWithinDay(today, it) ==
    /\ it.start_ok /\ it.end_ok
    /\ DateOf(it.start + VnOffsetMinutes) = today
    /\ DateOf(it.end + VnOffsetMinutes) = today

\* an item passes the loop: the try block parsed start and end, and the local
\* date of the start is today
KeepItem(today, it) ==
    /\ it.start_ok /\ it.end_ok
    /\ DateOf(it.start + VnOffsetMinutes) = today

\* the loop over schedules: the entries of the items that pass, in order
RedbullProgrammes(today, items) ==
    RedbullEntries(SelectSeq(items, LAMBDA it : KeepItem(today, it)))

InitRedbull ==
    /\ script = "redbulltv"
    /\ ths = <<>> /\ doc = <<>> /\ layout = "rows"
    /\ page \in EpgResponses
    /\ base_date \in BaseDates
    /\ pc = "start"
    /\ programs = <<>>
    /\ xml = NoFile
    /\ programmes_count = None

\* the request or r.json() raises: main returns
RedbullApiError ==
    /\ script = "redbulltv" /\ pc = "start"
    /\ page.kind = "error"
    /\ pc' = "failed"
    /\ UNCHANGED <<pageVars, programmes_count, programs, xml>>

\* no "items" in the data, or an empty list: main returns
RedbullNoSchedule ==
    /\ script = "redbulltv" /\ pc = "start"
    /\ page.kind = "no_items" \/ (page.kind = "items" /\ page.items = <<>>)
    /\ pc' = "done"
    /\ UNCHANGED <<pageVars, programmes_count, programs, xml>>

\* the loop over the items and the write of the guide
RedbullMain ==
    /\ script = "redbulltv" /\ pc = "start"
    /\ page.kind = "items" /\ page.items # <<>>
    /\ programs' = RedbullProgrammes(base_date, page.items)
    /\ xml' = [channel |-> "redbulltv", programmes |-> programs']
    /\ pc' = "done"
    /\ UNCHANGED <<pageVars, programmes_count>>

NextRedbull == RedbullApiError \/ RedbullNoSchedule \/ RedbullMain

(***************************************************************************)
(* brthtv.py.  The rendered page is a table: a sequence of tr, each a       *)
(* sequence of td holding one text node.                                   *)
(***************************************************************************)
\* time_re, ^\s*(\d{1,2}:\d{2})\s*$, on a stripped text
BrtTimeShape(t, n) ==
    /\ n \in {4, 5}
    /\ t[n - 2] = ":"
    /\ IsDigit(t[n - 1]) /\ IsDigit(t[n])
    /\ \A k \in 1..(n - 3) : IsDigit(t[k])

BrtTimeMatch(txt) == BrtTimeShape(Strip(txt), Len(Strip(txt)))

\* re.sub(re.escape(sub), "", s)
RECURSIVE RemoveAllFrom(_, _, _)
RemoveAllFrom(s, sub, i) ==
    IF i > Len(s) THEN <<>>
    ELSE IF i + Len(sub) - 1 <= Len(s) /\ Slice(s, i, i + Len(sub) - 1) = sub
         THEN RemoveAllFrom(s, sub, i + Len(sub))
    ELSE <<s[i]>> \o RemoveAllFrom(s, sub, i + 1)

RemoveAll(s, sub) == RemoveAllFrom(s, sub, 1)

\* get_text(" ", strip=True) of an element whose text nodes are these
GetTextSpaced(texts) ==
    Join(SelectSeq(StripAll(texts), LAMBDA t : t # <<>>), <<" ">>)

\* the first td of the row with a text that is no time, <<>> when there is none
BrtOtherCell(others) == IF others = <<>> THEN <<>> ELSE others[1]

\* the title found for the td with time_txt in the row tr: another td of the
\* row; the walk over next_elements stops at the td's own text node, a time;
\* then the text of the row without the time
BrtTitleOr(in_row, tr, time_txt) ==
    IF in_row # <<>> THEN in_row
    ELSE Strip(RemoveAll(GetTextSpaced(tr), time_txt))

BrtTitle(tr, time_txt) ==
    BrtTitleOr(BrtOtherCell(SelectSeq(StripAll(tr),
                   LAMBDA ot : ot # <<>> /\ ~BrtTimeMatch(ot))), tr, time_txt)

\* the entries of one row, for its td from index j on
RECURSIVE BrtRowEntriesFrom(_, _)
BrtRowEntry(tr, j, time_txt, title) ==
    (IF title # <<>> THEN <<[time |-> time_txt, title |-> title]>> ELSE <<>>)
    \o BrtRowEntriesFrom(tr, j + 1)

BrtRowEntriesFrom(tr, j) ==
    IF j > Len(tr) THEN <<>>
    ELSE IF Strip(tr[j]) = <<>> \/ ~BrtTimeMatch(tr[j]) THEN BrtRowEntriesFrom(tr, j + 1)
    ELSE BrtRowEntry(tr, j, Strip(tr[j]), BrtTitle(tr, Strip(tr[j])))

RECURSIVE BrtEntries(_)
BrtEntries(trs) ==
    IF trs = <<>> THEN <<>> ELSE BrtRowEntriesFrom(Head(trs), 1) \o BrtEntries(Tail(trs))

\* the deduplication preserving order
RECURSIVE DedupFrom(_, _, _)
DedupFrom(schedule, i, seen) ==
    IF i > Len(schedule) THEN <<>>
    ELSE IF schedule[i] \in seen THEN DedupFrom(schedule, i + 1, seen)
    ELSE <<schedule[i]>> \o DedupFrom(schedule, i + 1, seen \cup {schedule[i]})

\* mutant: the entries as collected, without the deduplication
ExtractWithoutDedup(trs) == BrtEntries(trs)

\* brthtv.extract_schedule_from_html
ExtractScheduleFromHtml(trs) == DedupFrom(BrtEntries(trs), 1, {})

\* str.zfill(2)
ZFill2(s) == IF Len(s) < 2 THEN <<"0">> \o s ELSE s

\* datetime.strptime(hh:mm, "%H:%M") on two-digit parts
BrtStartOf(today, parts) ==
    IF Len(parts) = 2 /\ IntOf(ZFill2(parts[1])) <= 23 /\ IntOf(ZFill2(parts[2])) <= 59
    THEN Returned(Combine(today, IntOf(ZFill2(parts[1])), IntOf(ZFill2(parts[2]))))
    ELSE Raised

\* the first loop of build_xmltv: the entries whose time parses
RECURSIVE BrtStarts(_, _)
BrtStartEntry(dt, title, rest) ==
    (IF dt.ok THEN <<[start |-> dt.value, title |-> title]>> ELSE <<>>) \o rest

BrtStarts(today, schedule) ==
    IF schedule = <<>> THEN <<>>
    ELSE BrtStartEntry(BrtStartOf(today, SplitOn(Strip(Head(schedule).time), ":")),
                       Head(schedule).title, BrtStarts(today, Tail(schedule)))

\* the stop of entry i: the next start, a day later when it is not after the
\* start; 30 minutes after the start for the last
BrtStop(ps, i) ==
    IF i + 1 <= Len(ps)
    THEN (IF ps[i + 1].start <= ps[i].start
          THEN ps[i + 1].start + MinutesPerDay ELSE ps[i + 1].start)
    ELSE ps[i].start + 30

BrtWithStops(ps) ==
    [i \in 1..Len(ps) |-> [start |-> ps[i].start, stop |-> BrtStop(ps, i),
                           title |-> ps[i].title]]

\* brthtv.build_xmltv: the programmes of the guide
BrtProgrammes(today, schedule) == SortByStart(BrtWithStops(BrtStarts(today, schedule)))

BrtCell(hh, mm) == <<DigitChars[hh + 1], ":">> \o Fmt2(mm)

BrtRowPool ==
    { <<ClockText(8, 0), TitleA>>,
      <<BrtCell(7, 30), TitleB>>,
      <<TitleC, ClockText(6, 0)>>,
      <<ClockText(9, 0)>>,
      <<ClockText(8, 0), ClockText(9, 0)>>,
      <<ClockText(24, 0), TitleC>> }

BrtPages == UNION {[1..n -> BrtRowPool] : n \in 0..MaxRows}

InitBrt ==
    /\ script = "brthtv"
    /\ ths = <<>> /\ doc = <<>> /\ layout = "rows"
    /\ page \in BrtPages
    /\ base_date \in BaseDates
    /\ pc = "start"
    /\ programs = <<>>
    /\ xml = NoFile
    /\ programmes_count = None

\* render_page_html raises, or returns no HTML: the guide with the channel alone
BrtRenderFailed ==
    /\ script = "brthtv" /\ pc = "start"
    /\ xml' = [channel |-> "brthtv", programmes |-> <<>>]
    /\ pc' = "failed"
    /\ UNCHANGED <<pageVars, programmes_count, programs>>

\* extract_schedule_from_html, build_xmltv and the write
BrtMain ==
    /\ script = "brthtv" /\ pc = "start"
    /\ programs' = BrtProgrammes(base_date, ExtractScheduleFromHtml(page))
    /\ xml' = [channel |-> "brthtv", programmes |-> programs']
    /\ pc' = "done"
    /\ UNCHANGED <<pageVars, programmes_count>>

NextBrt == BrtRenderFailed \/ BrtMain

(***************************************************************************)
(* crawl_boomerang.py                                                      *)
(***************************************************************************)
MaxDayRows == 2

\* %H of strptime: 2[0-3]|[0-1]\d|\d
IsHour24(h) ==
    \/ Len(h) = 1 /\ IsDigit(h[1])
    \/ Len(h) = 2 /\ IsDigit(h[1]) /\ IsDigit(h[2]) /\ IntOf(h) <= 23

\* %M of strptime at the end of the text: [0-5]\d|\d
IsMinute(m) ==
    \/ Len(m) = 1 /\ IsDigit(m[1])
    \/ Len(m) = 2 /\ IsDigit(m[1]) /\ IsDigit(m[2]) /\ IntOf(m) <= 59

\* the "%H:%M" part of datetime.strptime(f"{date} {t}", "%d/%m/%Y %H:%M"):
\* the minutes since midnight
StrpTimeOfParts(parts) ==
    IF Len(parts) = 2 /\ IsHour24(parts[1]) /\ IsMinute(parts[2])
    THEN Returned(IntOf(parts[1]) * 60 + IntOf(parts[2]))
    ELSE Raised

StrpTime24(t) == StrpTimeOfParts(SplitOn(t, ":"))

\* if len(t) == 4: t = "0" + t
PadFour(t) == IF Len(t) = 4 THEN <<"0">> \o t ELSE t

\* timedelta(hours=1), the length given without a usable next time
OneHour == 60

\* the stop of the row at index i, which starts at start_dt on current_date
NextTimeStop(current_date, start_dt, next) ==
    IF ~next.ok THEN start_dt + OneHour
    ELSE IF current_date * MinutesPerDay + next.value <= start_dt
         THEN current_date * MinutesPerDay + next.value + MinutesPerDay
    ELSE current_date * MinutesPerDay + next.value

StopOfRow(current_date, progs, i, start_dt) ==
    IF i + 1 <= Len(progs)
    THEN NextTimeStop(current_date, start_dt, StrpTime24(PadFour(progs[i + 1].time)))
    ELSE start_dt + OneHour

\* the programme elements of one day's list, from index i on
RECURSIVE DayElementsFrom(_, _, _)
DayElement(current_date, progs, i, start) ==
    (IF start.ok
     THEN <<[start |-> current_date * MinutesPerDay + start.value,
             stop  |-> StopOfRow(current_date, progs, i,
                                 current_date * MinutesPerDay + start.value),
             title |-> progs[i].title]>>
     ELSE <<>>)
    \o DayElementsFrom(current_date, progs, i + 1)

DayElementsFrom(current_date, progs, i) ==
    IF i > Len(progs) THEN <<>>
    ELSE IF Strip(progs[i].time) = <<>> THEN DayElementsFrom(current_date, progs, i + 1)
    ELSE DayElement(current_date, progs, i, StrpTime24(PadFour(progs[i].time)))

\* crawl_boomerang.to_xmltv: the programme elements in the order written
ToXmltv(today, programs_today, programs_tomorrow) ==
    DayElementsFrom(today, programs_today, 1)
    \o DayElementsFrom(today + 1, programs_tomorrow, 1)

\* a (time_str, title) pair of fetch_schedule: both texts stripped, non-empty
SchedulePair(time_text, title) == [time |-> time_text, title |-> title]

SchedulePairPool ==
    { SchedulePair(ClockText(23, 30), TitleA),
      SchedulePair(<<"0", ":", "1", "5">>, TitleB),
      SchedulePair(ClockText(8, 0), TitleC),
      SchedulePair(ClockText(24, 0), TitleA) }

DayLists == UNION {[1..n -> SchedulePairPool] : n \in 0..MaxDayRows}

InitCrawlBoomerang ==
    /\ script = "crawl_boomerang"
    /\ ths = <<>> /\ doc = <<>> /\ layout = "rows"
    /\ page \in [today : DayLists, tomorrow : DayLists]
    /\ base_date \in BaseDates
    /\ pc = "start"
    /\ programs = <<>>
    /\ xml = NoFile
    /\ programmes_count = None

\* fetch_schedule raises for one of the two days: main ends with the exception
CrawlBoomerangFetchFailed ==
    /\ script = "crawl_boomerang" /\ pc = "start"
    /\ pc' = "failed"
    /\ UNCHANGED <<pageVars, programmes_count, programs, xml>>

\* to_xmltv on the two lists and the write of boomerang.xml
CrawlBoomerangMain ==
    /\ script = "crawl_boomerang" /\ pc = "start"
    /\ programs' = ToXmltv(base_date, page.today, page.tomorrow)
    /\ xml' = [channel |-> "boomerang.vn", programmes |-> programs']
    /\ pc' = "done"
    /\ UNCHANGED <<pageVars, programmes_count>>

NextCrawlBoomerang == CrawlBoomerangFetchFailed \/ CrawlBoomerangMain

(***************************************************************************)
(* qpvn.py.  The rendered page is given by what each selector finds: a     *)
(* list of elements, each with the text of its span.time and span.title    *)
(* (has_time, has_title false: no such span).                              *)
(***************************************************************************)
\* selectors: .schedule-item, .item-schedule, .tv-schedule-item, li
NumSelectors == 4

QpvnEl(time_text, title) ==
    [has_time |-> TRUE, time |-> time_text, has_title |-> TRUE, title |-> title]

GoodEl1 == QpvnEl(ClockText(8, 0), TitleA)
GoodEl2 == QpvnEl(<<" ", "9", ":", "3", "0">>, TitleB)
BadClockEl == QpvnEl(ClockText(24, 0), TitleC)
NoSpanEl == [QpvnEl(<<>>, <<>>) EXCEPT !.has_time = FALSE, !.has_title = FALSE]

\* what one selector may find
FoundPool ==
    { <<>>,
      <<GoodEl1, GoodEl2>>,
      <<NoSpanEl, BadClockEl, NoSpanEl>>,
      <<GoodEl1, NoSpanEl, GoodEl2>>,
      <<GoodEl2, GoodEl1, BadClockEl>> }

\* the body of the try block for one element: the programme appended, or
\* nothing when a span is missing or strptime raises
QpvnParsed(today, it, start) ==
    IF start.ok
    THEN <<[start |-> today * MinutesPerDay + start.value,
            stop  |-> today * MinutesPerDay + start.value + 30,
            title |-> Strip(it.title)]>>
    ELSE <<>>

QpvnElement(today, it) ==
    IF ~it.has_time \/ ~it.has_title THEN <<>>
    ELSE QpvnParsed(today, it, StrpTime24(Strip(it.time)))

RECURSIVE QpvnElements(_, _)
QpvnElements(today, items) ==
    IF items = <<>> THEN <<>>
    ELSE QpvnElement(today, Head(items)) \o QpvnElements(today, Tail(items))

\* for sel in selectors: the first selector that finds more than two elements
\* is parsed, and the loop ends there
RECURSIVE QpvnSelectors(_, _, _)
QpvnSelectors(today, found, k) ==
    IF k > Len(found) THEN <<>>
    ELSE IF Len(found[k]) > 2 THEN QpvnElements(today, found[k])
    ELSE QpvnSelectors(today, found, k + 1)

InitQpvn ==
    /\ script = "qpvn"
    /\ ths = <<>> /\ doc = <<>> /\ layout = "rows"
    /\ page \in [1..NumSelectors -> FoundPool]
    /\ base_date \in BaseDates
    /\ pc = "start"
    /\ programs = <<>>
    /\ xml = NoFile
    /\ programmes_count = None

\* session.get raises: crawl_qpvn ends with the exception
QpvnFetchFailed ==
    /\ script = "qpvn" /\ pc = "start"
    /\ pc' = "failed"
    /\ UNCHANGED <<pageVars, programmes_count, programs, xml>>

\* the loop over the selectors and the write of qpvn.xml
QpvnMain ==
    /\ script = "qpvn" /\ pc = "start"
    /\ programs' = QpvnSelectors(base_date, page, 1)
    /\ xml' = [channel |-> "qpvn1", programmes |-> programs']
    /\ pc' = "done"
    /\ UNCHANGED <<pageVars, programmes_count>>

NextQpvn == QpvnFetchFailed \/ QpvnMain

InitScripts ==
    \/ InitBoomerang \/ InitAtv3 \/ InitUnbeaten \/ InitRedbull \/ InitBrt
    \/ InitCrawlBoomerang \/ InitQpvn

NextScripts ==
    \/ NextBoomerang \/ NextAtv3 \/ NextUnbeaten \/ NextRedbull \/ NextBrt
    \/ NextCrawlBoomerang \/ NextQpvn

SpecScripts == InitScripts /\ [][NextScripts]_vars

(***************************************************************************)
(* craw1.py: the regular expressions                                       *)
(***************************************************************************)
\* the character at index p is a \w character (none outside the text)
WordAt(s, p) == p >= 1 /\ p <= Len(s) /\ IsWord(s[p])

DigitAt(s, p) == p >= 1 /\ p <= Len(s) /\ IsDigit(s[p])

\* \b between the characters at p - 1 and p
BoundaryAt(s, p) == WordAt(s, p - 1) # WordAt(s, p)

\* [:h\.]\d{2} at index j
ClockTailAt(s, j) ==
    /\ j + 2 <= Len(s)
    /\ s[j] \in {":", "h", "."}
    /\ IsDigit(s[j + 1]) /\ IsDigit(s[j + 2])

\* the length of the match of \d{1,2}[:h\.]\d{2} at index i, 0 without a match
ClockLenAt(s, i) ==
    IF DigitAt(s, i) /\ DigitAt(s, i + 1) /\ ClockTailAt(s, i + 2) THEN 5
    ELSE IF DigitAt(s, i) /\ ClockTailAt(s, i + 1) THEN 4
    ELSE 0

\* the first index >= i at which \d{1,2}[:h\.]\d{2} matches, 0 when none does
RECURSIVE FirstClockFrom(_, _)
FirstClockFrom(s, i) ==
    IF i > Len(s) THEN 0
    ELSE IF ClockLenAt(s, i) > 0 THEN i
    ELSE FirstClockFrom(s, i + 1)

\* m.group(1) of re.search(r'(\d{1,2}[:h\.]\d{2})', s), <<>> without a match
ClockTokenAt(s, i) == IF i = 0 THEN <<>> ELSE SubSeq(s, i, i + ClockLenAt(s, i) - 1)

ClockToken(s) == ClockTokenAt(s, FirstClockFrom(s, 1))

\* the length of the match of \b\d{1,2}[:h\.]\d{2}\b at index i, 0 without one
WordClockLenAt(s, i) ==
    IF ~DigitAt(s, i) \/ WordAt(s, i - 1) THEN 0
    ELSE IF DigitAt(s, i + 1) /\ ClockTailAt(s, i + 2) /\ ~WordAt(s, i + 5) THEN 5
    ELSE IF ClockTailAt(s, i + 1) /\ ~WordAt(s, i + 4) THEN 4
    ELSE 0

\* len(re.findall(r'\b\d{1,2}[:h\.]\d{2}\b', s)) from index i on
RECURSIVE CountWordClocksFrom(_, _)
CountWordClocksFrom(s, i) ==
    IF i > Len(s) THEN 0
    ELSE IF WordClockLenAt(s, i) > 0
         THEN 1 + CountWordClocksFrom(s, i + WordClockLenAt(s, i))
    ELSE CountWordClocksFrom(s, i + 1)

CountWordClocks(s) == CountWordClocksFrom(s, 1)

\* re.sub(r'\b\d{1,2}[:h\.]\d{2}\b', '', s) from index i on
RECURSIVE RemoveWordClocksFrom(_, _)
RemoveWordClocksFrom(s, i) ==
    IF i > Len(s) THEN <<>>
    ELSE IF WordClockLenAt(s, i) > 0 THEN RemoveWordClocksFrom(s, i + WordClockLenAt(s, i))
    ELSE <<s[i]>> \o RemoveWordClocksFrom(s, i + 1)

RemoveWordClocks(s) == RemoveWordClocksFrom(s, 1)

\* str.replace("h", ":").replace(".", ":")
ColonChar(c) == IF c \in {"h", "."} THEN ":" ELSE c

Colons(s) == [k \in 1..Len(s) |-> ColonChar(s[k])]

\* phone_re, \b0\d{8,}\b, matching at index i: a run of digits that starts
\* with 0 at a word boundary, has nine digits or more and ends at a boundary
PhoneAt(s, i) ==
    /\ s[i] = "0"
    /\ ~WordAt(s, i - 1)
    /\ RunEnd(Digits, s, i) - i + 1 >= 9
    /\ ~WordAt(s, RunEnd(Digits, s, i) + 1)

PhoneSearch(s) == \E i \in 1..Len(s) : PhoneAt(s, i)

\* intl_phone_re, \+\d{6,}
IntlPhoneSearch(s) ==
    \E i \in 1..Len(s) : s[i] = "+" /\ DigitAt(s, i + 1) /\ RunEnd(Digits, s, i + 1) - i >= 6

\* a character of the class [\w\.-]
MailCharAt(s, p) == p >= 1 /\ p <= Len(s) /\ (IsWord(s[p]) \/ s[p] \in {".", "-"})

\* email_re, [\w\.-]+@[\w\.-]+
EmailSearch(s) ==
    \E i \in 1..Len(s) : s[i] = "@" /\ MailCharAt(s, i - 1) /\ MailCharAt(s, i + 1)

\* \b(kw)\b with re.I matching at index i
KeywordAt(s, kw, i) ==
    /\ i + Len(kw) - 1 <= Len(s)
    /\ Lower(SubSeq(s, i, i + Len(kw) - 1)) = kw
    /\ BoundaryAt(s, i)
    /\ BoundaryAt(s, i + Len(kw))

\* the search of \b(kw1|kw2|...)\b with re.I
KeywordSearch(s, kws) == \E kw \in kws : \E i \in 1..Len(s) : KeywordAt(s, kw, i)

\* the alternatives of hotline_kw that a text of the modelled alphabet can
\* hold (the Vietnamese ones need letters outside it)
HotlineWords ==
    { <<"h", "o", "t", "l", "i", "n", "e">>,
      <<"h", "o", "t", "-", "l", "i", "n", "e">>,
      <<" ", "h", "o", "t", "l", "i", "n", "e", " ">> }

\* the alternatives of contact_kw; http[:\/]{2} is its four expansions
ContactWords ==
    { <<"e", "m", "a", "i", "l">>, <<"g", "m", "a", "i", "l">>,
      <<"y", "a", "h", "o", "o">>, <<"f", "a", "c", "e", "b", "o", "o", "k">>,
      <<"z", "a", "l", "o">>, <<"w", "e", "b">>, <<"w", "w", "w", ".">> }
    \cup { <<"h", "t", "t", "p">> \o <<a, b>> : a \in {":", "/"}, b \in {":", "/"} }

\* the alternatives of ads_kw in the modelled alphabet
AdsWords ==
    { <<"a", "d", "v", "e", "r", "t", "i", "s">>, <<"s", "p", "o", "n", "s", "o", "r">> }

\* the test that skips a block
LooksLikeContact(txt) ==
    \/ PhoneSearch(txt) \/ IntlPhoneSearch(txt) \/ EmailSearch(txt)
    \/ KeywordSearch(txt, HotlineWords)
    \/ KeywordSearch(txt, ContactWords)
    \/ KeywordSearch(txt, AdsWords)

\* the test that skips a title
ContactTitle(title_norm) ==
    \/ PhoneSearch(title_norm) \/ EmailSearch(title_norm)
    \/ KeywordSearch(title_norm, HotlineWords)
    \/ KeywordSearch(title_norm, ContactWords)

\* dateparser.parse(hh:mm).time() combined with the date: None for an hour
\* above 23 or a minute above 59
ClockOfParts(base, parts) ==
    IF IntOf(parts[1]) <= 23 /\ IntOf(parts[2]) <= 59
    THEN Combine(base, IntOf(parts[1]), IntOf(parts[2]))
    ELSE None

ClockOfToken(base, token) ==
    IF token = <<>> THEN None ELSE ClockOfParts(base, SplitOn(token, ":"))

\* craw1.parse_time_from_text on a text that holds a clock token, as every
\* call of the module passes
ParseTimeFromText(base, txt) == ClockOfToken(base, ClockToken(Colons(Strip(txt))))

(***************************************************************************)
(* craw1.parse_antv_html.  The page is a sequence of li blocks without     *)
(* heading or class, each a sequence of text nodes without line breaks:     *)
(* the container is the whole document and the blocks are the nodes the     *)
(* selectors find.                                                          *)
(***************************************************************************)
\* the stripped, non-empty text nodes of a block: the lines of
\* get_text("\n", strip=True)
TextLines(block) == SelectSeq(StripAll(block), LAMBDA t : t # <<>>)

\* node.get_text(sep, strip=True)
GetText(block, sep) == Join(TextLines(block), <<sep>>)

\* the tests of step 3 on the text of a node and its count of time tokens
IsSmallTimed(txt, time_count) ==
    /\ txt # <<>>
    /\ time_count # 0
    /\ Len(SelectSeq(SplitOn(txt, "\n"), LAMBDA ln : Strip(ln) # <<>>)) <= 8
    /\ Len(txt) <= 400
    /\ time_count <= 3

IsRawCandidate(block) ==
    IsSmallTimed(GetText(block, " "), CountWordClocks(GetText(block, " ")))

\* the nodes kept in order, one for each text
RECURSIVE OrderedNodesFrom(_, _, _)
OrderedNodesFrom(nodes, i, seen_texts) ==
    IF i > Len(nodes) THEN <<>>
    ELSE IF GetText(nodes[i], " ") \in seen_texts
         THEN OrderedNodesFrom(nodes, i + 1, seen_texts)
    ELSE <<nodes[i]>>
         \o OrderedNodesFrom(nodes, i + 1, seen_texts \cup {GetText(nodes[i], " ")})

OrderedNodes(page_blocks) == OrderedNodesFrom(SelectSeq(page_blocks, IsRawCandidate), 1, {})

Unknown == <<"U", "n", "k", "n", "o", "w", "n">>

\* the index of the first line that holds the token, 0 for none
RECURSIVE LineIdxFrom(_, _, _)
LineIdxFrom(lines, raw, i) ==
    IF i > Len(lines) THEN 0
    ELSE IF Contains(lines[i], raw) THEN i
    ELSE LineIdxFrom(lines, raw, i + 1)

OrUnknown(line_after) == IF line_after # <<>> THEN line_after ELSE Unknown

\* the title of a block: the line after the line of the time, or the rest of
\* that line
TitleAt(txt, lines, raw, idx) ==
    IF idx = 0 THEN Strip(SplitOn(Strip(RemoveAll(txt, raw)), "\n")[1])
    ELSE IF idx + 1 <= Len(lines) THEN lines[idx + 1]
    ELSE OrUnknown(Strip(RemoveAll(lines[idx], raw)))

\* desc = " ".join(lines[idx + 2: idx + 4]), with its whitespace collapsed
DescAt(lines, idx) ==
    IF idx = 0 \/ idx + 2 > Len(lines) THEN <<>>
    ELSE Strip(CollapseSpaces(Join(Slice(lines, idx + 2, idx + 3), <<" ">>)))

\* " ".join(re.sub(token, '', title).split()).strip()
TitleNorm(title) == Strip(CollapseSpaces(RemoveWordClocks(title)))

\* what the loop of step 4 does with one node whose text is no contact text:
\* kind "skip", "seen" (the key is recorded and nothing appended) or "item"
AntvOutcome(title_norm, key, start, desc, seen_programs) ==
    IF Len(title_norm) < 2 \/ ContactTitle(title_norm) \/ key \in seen_programs
    THEN [kind |-> "skip"]
    ELSE IF start = None THEN [kind |-> "seen", key |-> key]
    ELSE [kind |-> "item", key |-> key,
          item |-> [start |-> start, title |-> title_norm, desc |-> desc]]

AntvTitled(base, raw, title, desc, seen_programs) ==
    AntvOutcome(TitleNorm(title), <<Colons(raw), Lower(TitleNorm(title))>>,
                ParseTimeFromText(base, Colons(raw)), desc, seen_programs)

AntvLined(base, txt, lines, raw, idx, seen_programs) ==
    AntvTitled(base, raw, TitleAt(txt, lines, raw, idx), DescAt(lines, idx), seen_programs)

AntvTimed(base, txt, lines, raw, seen_programs) ==
    IF raw = <<>> THEN [kind |-> "skip"]
    ELSE AntvLined(base, txt, lines, raw, LineIdxFrom(lines, raw, 1), seen_programs)

\* mutant: no test of the text of the block
AntvNodeUnfiltered(base, txt, seen_programs) ==
    AntvTimed(base, txt, StripAll(SelectSeq(SplitOn(txt, "\n"),
                                     LAMBDA ln : Strip(ln) # <<>>)),
              ClockToken(txt), seen_programs)

\* one node of the loop of step 4: a block that looks like contact or
\* advertising text is skipped
AntvNode(base, txt, seen_programs) ==
    IF LooksLikeContact(txt) THEN [kind |-> "skip"]
    ELSE AntvTimed(base, txt, StripAll(SelectSeq(SplitOn(txt, "\n"),
                                          LAMBDA ln : Strip(ln) # <<>>)),
                   ClockToken(txt), seen_programs)

\* the loop of step 4 over the ordered nodes
RECURSIVE AntvItemsFrom(_, _, _, _)
AntvStep(base, nodes, i, seen_programs, out) ==
    IF out.kind = "skip" THEN AntvItemsFrom(base, nodes, i + 1, seen_programs)
    ELSE IF out.kind = "seen"
         THEN AntvItemsFrom(base, nodes, i + 1, seen_programs \cup {out.key})
    ELSE <<out.item>> \o AntvItemsFrom(base, nodes, i + 1, seen_programs \cup {out.key})

AntvItemsFrom(base, nodes, i, seen_programs) ==
    IF i > Len(nodes) THEN <<>>
    ELSE AntvStep(base, nodes, i, seen_programs,
                  AntvNode(base, GetText(nodes[i], "\n"), seen_programs))

\* step 5 on the sorted items: the stop is the next start when it is later,
\* 30 minutes after the start otherwise and for the last item
MonotonicStops(items) ==
    [i \in 1..Len(items) |->
        [start |-> items[i].start,
         stop  |-> IF i + 1 <= Len(items) /\ items[i + 1].start > items[i].start
                   THEN items[i + 1].start
                   ELSE items[i].start + DEFAULT_DURATION_MIN,
         title |-> items[i].title,
         desc  |-> items[i].desc]]

\* craw1.parse_antv_html
ParseAntvHtml(page_blocks, base) ==
    MonotonicStops(SortByStart(AntvItemsFrom(base, OrderedNodes(page_blocks), 1, {})))

News == <<"N", "e", "w", "s">>
Film == <<"F", "i", "l", "m">>
HotlineText == <<"H", "o", "t", "l", "i", "n", "e", ":", " ">>
                \o <<"0", "9", "0", "9", "1", "2", "3", "4", "5", "6">>
MailText == <<"a", "@", "b", ".", "v", "n">>
SponsorText == <<"s", "p", "o", "n", "s", "o", "r">>
IntlText == <<"+", "8", "4", "9", "0", "9", "1", "2", "3">>

\* the blocks of the pages: programmes on one or two lines, with a
\* description, and blocks holding contact or advertising text
AntvBlockPool ==
    { <<ClockText(8, 0), News>>,
      <<ClockText(8, 0) \o <<" ">> \o Film>>,
      <<<<"7", "h", "3", "0">>, News, Film>>,
      <<ClockText(9, 0), HotlineText>>,
      <<ClockText(10, 0), Film, SponsorText>>,
      <<ClockText(10, 0) \o <<" ">> \o MailText>>,
      <<ClockText(11, 0), IntlText, Film>>,
      <<ClockText(25, 0), Film>> }

AntvPages == UNION {[1..n -> AntvBlockPool] : n \in 0..MaxRows}

InitAntv ==
    /\ script = "craw1.parse_antv_html"
    /\ ths = <<>> /\ doc = <<>> /\ layout = "rows"
    /\ page \in AntvPages
    /\ base_date \in BaseDates
    /\ pc = "start"
    /\ programs = <<>>
    /\ xml = NoFile
    /\ programmes_count = None

\* the call parse_antv_html(html, base_date)
RunAntv ==
    /\ script = "craw1.parse_antv_html" /\ pc = "start"
    /\ programs' = ParseAntvHtml(page, base_date)
    /\ pc' = "done"
    /\ UNCHANGED <<pageVars, programmes_count, xml>>

NextAntv == RunAntv

SpecAntv == InitAntv /\ [][NextAntv]_vars

(***************************************************************************)
(* craw1.parse_angiang_html and craw1.crawl_generic.  The page is a table: *)
(* a sequence of tr, each a sequence of td holding one text node, without  *)
(* class attributes and without li or div elements.                        *)
(***************************************************************************)
OrUnknownTitle(title) == IF title # <<>> THEN title ELSE Unknown

\* items[i]['stop'] = items[i + 1]['start'], 30 minutes for the last
NextStartStops(items) ==
    [i \in 1..Len(items) |->
        [start |-> items[i].start,
         stop  |-> IF i + 1 <= Len(items) THEN items[i + 1].start
                   ELSE items[i].start + DEFAULT_DURATION_MIN,
         title |-> items[i].title]]

\* the text after the first occurrence of the token: re.split(token, txt, 1)[1]
TailAfter(txt, i, n) == IF i = 0 THEN <<>> ELSE Strip(Slice(txt, i + n, Len(txt)))

\* the text of the first td without a time token and with a text, <<>> if none
FirstPlainCell(plain) == IF plain = <<>> THEN <<>> ELSE plain[1]

\* the title of a row of parse_angiang_html: a td without time, the text after
\* the time, the text of the next row
AngiangTitleOr(title, next_text) == IF title # <<>> THEN title ELSE next_text

AngiangTitle(tr, txt, raw, next_text) ==
    AngiangTitleOr(
        AngiangTitleOr(FirstPlainCell(SelectSeq(TextLines(tr),
                                                LAMBDA t : ClockToken(t) = <<>>)),
                       TailAfter(txt, FirstClockFrom(txt, 1), Len(raw))),
        next_text)

\* the loop over the rows from row i on
RECURSIVE AngiangRowsFrom(_, _, _)
AngiangRow(base, trs, i, raw, start, title) ==
    (IF raw # <<>> /\ start # None
     THEN <<[start |-> start, title |-> OrUnknownTitle(title)]>> ELSE <<>>)
    \o AngiangRowsFrom(base, trs, i + 1)

AngiangRowsFrom(base, trs, i) ==
    IF i > Len(trs) THEN <<>>
    ELSE AngiangRow(base, trs, i, ClockToken(GetText(trs[i], " ")),
                    ParseTimeFromText(base, Colons(ClockToken(GetText(trs[i], " ")))),
                    AngiangTitle(trs[i], GetText(trs[i], " "),
                                 ClockToken(GetText(trs[i], " ")),
                                 IF i + 1 <= Len(trs) THEN GetText(trs[i + 1], " ")
                                 ELSE <<>>))

\* craw1.parse_angiang_html
ParseAngiangHtml(trs, base) == NextStartStops(SortByStart(AngiangRowsFrom(base, trs, 1)))

\* the loop of crawl_generic over the nodes of the selector "table tr", the
\* only selector of the list that finds a node
RECURSIVE GenericRowsFrom(_, _, _)
GenericRow(base, trs, i, raw, start, title) ==
    (IF raw # <<>> /\ start # None
     THEN <<[start |-> start, title |-> OrUnknownTitle(title)]>> ELSE <<>>)
    \o GenericRowsFrom(base, trs, i + 1)

GenericTitled(base, trs, i, text, raw) ==
    GenericRow(base, trs, i, raw, ParseTimeFromText(base, Colons(raw)),
               Strip(RemoveAll(text, raw)))

GenericRowsFrom(base, trs, i) ==
    IF i > Len(trs) THEN <<>>
    ELSE GenericTitled(base, trs, i, GetText(trs[i], " "),
                       ClockToken(GetText(trs[i], " ")))

\* the first string after the node with more than two characters and without
\* a time token: node.find_next(string=...)
RECURSIVE FindNextString(_, _)
FindNextString(strings, k) ==
    IF k > Len(strings) THEN <<>>
    ELSE IF Len(Strip(strings[k])) > 2 /\ ClockToken(strings[k]) = <<>>
         THEN Strip(strings[k])
    ELSE FindNextString(strings, k + 1)

\* the title the text-node scan gives the node at td j of row i: the td has
\* no other text; the next td of the row; the next string of the document
ScanNodeTitleOr(sibling, found) == IF sibling # <<>> THEN sibling ELSE found

ScanNodeTitle(trs, i, j) ==
    ScanNodeTitleOr(IF j + 1 <= Len(trs[i]) THEN Strip(trs[i][j + 1]) ELSE <<>>,
                    FindNextString(Slice(trs[i], j + 1, Len(trs[i]))
                                   \o Flatten(Slice(trs, i + 1, Len(trs))), 1))

\* the scan over the text nodes holding a time token, from td j of row i on
RECURSIVE ScanNodesFrom(_, _, _, _)
ScanNode(base, trs, i, j, start) ==
    (IF start # None
     THEN <<[start |-> start, title |-> OrUnknownTitle(ScanNodeTitle(trs, i, j))]>>
     ELSE <<>>)
    \o ScanNodesFrom(base, trs, i, j + 1)

ScanNodesFrom(base, trs, i, j) ==
    IF i > Len(trs) THEN <<>>
    ELSE IF j > Len(trs[i]) THEN ScanNodesFrom(base, trs, i + 1, 1)
    ELSE IF ClockToken(trs[i][j]) = <<>> THEN ScanNodesFrom(base, trs, i, j + 1)
    ELSE ScanNode(base, trs, i, j, ParseTimeFromText(base, Colons(Strip(trs[i][j]))))

\* if not items: the scan over the text nodes
GenericItemsOr(base, trs, items) ==
    IF items # <<>> THEN items ELSE ScanNodesFrom(base, trs, 1, 1)

\* craw1.crawl_generic
CrawlGeneric(trs, base) ==
    NextStartStops(SortByStart(GenericItemsOr(base, trs, GenericRowsFrom(base, trs, 1))))

(***************************************************************************)
(* craw.main and craw1.main: the loop over the channels and build_xmltv    *)
(***************************************************************************)
MaxChannels == 2

\* the id of the channel at each position of the loaded list
ChanIds == <<"ch1", "ch2", "ch3", "ch4">>

\* build_xmltv of both modules: the channel elements in the order of the
\* list, then the programmes of each channel
RECURSIVE ProgrammeElements(_)
ProgrammeElements(channels_programmes) ==
    IF channels_programmes = <<>> THEN <<>>
    ELSE [k \in 1..Len(Head(channels_programmes).programmes) |->
            [channel |-> Head(channels_programmes).id,
             start   |-> Head(channels_programmes).programmes[k].start,
             stop    |-> Head(channels_programmes).programmes[k].stop,
             title   |-> Head(channels_programmes).programmes[k].title]]
         \o ProgrammeElements(Tail(channels_programmes))

BuildXmltv(channels_programmes) ==
    [channels   |-> [k \in 1..Len(channels_programmes) |-> channels_programmes[k].id],
     programmes |-> ProgrammeElements(channels_programmes)]

\* the document without channel that craw1.main writes for an empty list
EmptyTv == [channels |-> <<>>, programmes |-> <<>>]

\* what the crawl of one channel of craw.py does: fetch raises, the parser
\* raises, or the crawler returns its sorted items with their stops
CrawResults ==
    { [kind |-> "fetch_error", items |-> <<>>],
      [kind |-> "parse_error", items |-> <<>>],
      [kind |-> "ok", items |-> <<>>],
      [kind |-> "ok", items |-> <<[start |-> 480, stop |-> 510, title |-> News]>>],
      [kind |-> "ok", items |-> <<[start |-> 450, stop |-> 480, title |-> Film],
                                  [start |-> 480, stop |-> 510, title |-> News]>>] }

\* an entry of the list of channels of craw.py: kenh.txt gives every entry a
\* url, an entry of crawl1.yml may lack it
CrawChannelPool ==
    {[has_url |-> TRUE, crawl |-> r] : r \in CrawResults}
    \cup {[has_url |-> FALSE, crawl |-> [kind |-> "ok", items |-> <<>>]]}

\* the programmes of a channel after the try block of craw.main
CrawProgrammes(crawl) == IF crawl.kind = "ok" THEN crawl.items ELSE <<>>

\* the day offsets of craw1.main by default
Offsets == <<0, 1>>

\* what one day of one channel of craw1.py gives: fetch returns b"" on an
\* error, the parser raises, or the page of that day is parsed
DayOk(trs) == [fetch |-> "ok", raises |-> FALSE, trs |-> trs]

FetchError == [fetch |-> "error", raises |-> FALSE, trs |-> <<>>]

ParserRaises == [fetch |-> "ok", raises |-> TRUE, trs |-> <<>>]

FirstDayPool ==
    { FetchError, ParserRaises,
      DayOk(<<<<ClockText(8, 0), News>>, <<<<"7", "h", "3", "0">>, Film>>>>),
      DayOk(<<<<ClockText(9, 0), HotlineText>>>>),
      DayOk(<<<<ClockText(25, 0), ClockText(12, 30) \o <<" ">> \o News>>>>) }

SecondDayPool == { FetchError, DayOk(<<<<ClockText(6, 0), Film>>>>) }

Craw1ChannelPool ==
    {[url |-> u, days |-> <<d1, d2>>] :
        u \in {"angiangtv.vn", "other"}, d1 \in FirstDayPool, d2 \in SecondDayPool}

\* the items of one offset: nothing when an exception is caught, the items of
\* the parser chosen by the url otherwise, on b"" when the fetch failed
DayItems(url, day, base) ==
    IF day.raises THEN <<>>
    ELSE IF url = "angiangtv.vn" THEN ParseAngiangHtml(day.trs, base)
    ELSE CrawlGeneric(day.trs, base)

\* the stops of the combined items: the next start, the last one unchanged
CombinedStops(all_items) ==
    [i \in 1..Len(all_items) |->
        IF i + 1 <= Len(all_items)
        THEN [all_items[i] EXCEPT !.stop = all_items[i + 1].start]
        ELSE all_items[i]]

\* the items of one channel of craw1.main over the offsets
AllItems(ch, today) ==
    CombinedStops(SortByStart(Flatten(
        [k \in 1..Len(Offsets) |-> DayItems(ch.url, ch.days[k], today + Offsets[k])])))

InitCraw ==
    /\ script = "craw"
    /\ ths = <<>> /\ doc = <<>> /\ layout = "rows"
    /\ page \in UNION {[1..n -> CrawChannelPool] : n \in 0..MaxChannels}
    /\ base_date \in BaseDates
    /\ pc = "start"
    /\ programs = <<>>
    /\ xml = NoFile
    /\ programmes_count = None

\* no channel in kenh.txt or crawl1.yml: sys.exit(1)
CrawNoChannels ==
    /\ script = "craw" /\ pc = "start"
    /\ page = <<>>
    /\ pc' = "exit"
    /\ UNCHANGED <<pageVars, programmes_count, programs, xml>>

\* one turn of the loop of craw.main on a channel with a url
CrawChannel ==
    /\ script = "craw" /\ pc = "start"
    /\ Len(programs) < Len(page)
    /\ page[Len(programs) + 1].has_url
    /\ programs' = Append(programs,
                      [id         |-> ChanIds[Len(programs) + 1],
                       programmes |-> CrawProgrammes(page[Len(programs) + 1].crawl)])
    /\ UNCHANGED <<pageVars, programmes_count, pc, xml>>

\* ch['url'] of an entry without url raises KeyError outside the try block
CrawKeyError ==
    /\ script = "craw" /\ pc = "start"
    /\ Len(programs) < Len(page)
    /\ ~page[Len(programs) + 1].has_url
    /\ pc' = "aborted"
    /\ UNCHANGED <<pageVars, programmes_count, programs, xml>>

\* build_xmltv(channels_programmes) after the loop
CrawBuild ==
    /\ script = "craw" /\ pc = "start"
    /\ page # <<>> /\ Len(programs) = Len(page)
    /\ xml' = BuildXmltv(programs)
    /\ pc' = "built"
    /\ UNCHANGED <<pageVars, programmes_count, programs>>

InitCraw1 ==
    /\ script = "craw1"
    /\ ths = <<>> /\ doc = <<>> /\ layout = "rows"
    /\ page \in UNION {[1..n -> Craw1ChannelPool] : n \in 0..MaxChannels}
    /\ base_date \in BaseDates
    /\ pc = "start"
    /\ programs = <<>>
    /\ xml = NoFile
    /\ programmes_count = None

\* no channel in kenh.txt: the document without channel, sys.exit(0)
Craw1NoChannels ==
    /\ script = "craw1" /\ pc = "start"
    /\ page = <<>>
    /\ xml' = EmptyTv
    /\ programmes_count' = 0
    /\ pc' = "exit"
    /\ UNCHANGED <<pageVars, programs>>

\* one turn of the loop of craw1.main over the channels
Craw1Channel ==
    /\ script = "craw1" /\ pc = "start"
    /\ Len(programs) < Len(page)
    /\ programs' = Append(programs,
                      [id         |-> ChanIds[Len(programs) + 1],
                       programmes |-> AllItems(page[Len(programs) + 1], base_date)])
    /\ UNCHANGED <<pageVars, programmes_count, pc, xml>>

\* total of build_xmltv: one is added for each programme of each channel
RECURSIVE BuildTotal(_)
BuildTotal(channels_programmes) ==
    IF channels_programmes = <<>> THEN 0
    ELSE Len(Head(channels_programmes).programmes) + BuildTotal(Tail(channels_programmes))

\* build_xmltv(channels_programmes, outpath=OUTPUT) after the loop, the
\* document serialized and written, then the stats files
Craw1Build ==
    /\ script = "craw1" /\ pc = "start"
    /\ page # <<>> /\ Len(programs) = Len(page)
    /\ xml' = BuildXmltv(programs)
    /\ programmes_count' = BuildTotal(programs)
    /\ pc' = "built"
    /\ UNCHANGED <<pageVars, programs>>

\* the same when tostring, minidom or the write raises inside build_xmltv:
\* its except branch writes the minimal document and total is returned
Craw1BuildMinimal ==
    /\ script = "craw1" /\ pc = "start"
    /\ page # <<>> /\ Len(programs) = Len(page)
    /\ xml' = EmptyTv
    /\ programmes_count' = BuildTotal(programs)
    /\ pc' = "built"
    /\ UNCHANGED <<pageVars, programs>>

\* build_xmltv itself raises: main writes the minimal document and counts 0
Craw1BuildRaised ==
    /\ script = "craw1" /\ pc = "start"
    /\ page # <<>> /\ Len(programs) = Len(page)
    /\ xml' = EmptyTv
    /\ programmes_count' = 0
    /\ pc' = "built"
    /\ UNCHANGED <<pageVars, programs>>

InitBatch == InitCraw \/ InitCraw1

NextBatch ==
    \/ CrawNoChannels \/ CrawChannel \/ CrawKeyError \/ CrawBuild
    \/ Craw1NoChannels \/ Craw1Channel \/ Craw1Build
    \/ Craw1BuildMinimal \/ Craw1BuildRaised

SpecBatch == InitBatch /\ [][NextBatch]_vars

(***************************************************************************)
(* Properties of the returned programme list                               *)
(***************************************************************************)
Ran == pc # "start"

\* every row of the document produced a programme: programs[i] comes from doc[i]
AllRowsKept == Ran /\ Len(programs) = Len(doc)

ClockOf(r) == r.hh * 60 + r.mm

LastOf(seq) == seq[Len(seq)]

\* C1: the programmes returned by each normalizer have strictly increasing
\* starts, for every document and base date
C1_StartsStrictlyIncreasing ==
    Ran => \A i \in 1..(Len(programs) - 1) : programs[i].start < programs[i + 1].start

\* a row repeating the clock of the row before it was moved one day on
C1_Witness ==
    /\ AllRowsKept
    /\ \E i \in 1..(Len(doc) - 1) :
          /\ ClockOf(doc[i + 1]) = ClockOf(doc[i])
          /\ programs[i + 1].start = programs[i].start + MinutesPerDay

\* C2: the programmes returned by each normalizer do not overlap, whatever
\* durations their rows carry: each stop is at most the next start
C2_NoOverlap ==
    Ran => \A i \in 1..(Len(programs) - 1) : programs[i].stop <= programs[i + 1].start

\* a row with a successor has a duration cell that runs past the successor's start
C2_Witness ==
    /\ AllRowsKept
    /\ pc \in {"table", "pipe"}
    /\ \E i \in 1..(Len(doc) - 1) :
          /\ doc[i].dur # None
          /\ programs[i].start + doc[i].dur > programs[i + 1].start

\* C3: rollover.  The first entry is on the base date; an entry whose clock on
\* the day of the previous entry is not after the previous start is placed on
\* the next day, otherwise on the day of the previous entry; and 23:30, 00:15,
\* 06:00 on base date D give D 23:30, D+1 00:15, D+1 06:00
C3_Rollover ==
    /\ AllRowsKept /\ doc # <<>> =>
          /\ programs[1].start = base_date * MinutesPerDay + ClockOf(doc[1])
          /\ \A i \in 2..Len(doc) :
                LET prev == programs[i - 1].start
                    cand == (prev \div MinutesPerDay) * MinutesPerDay + ClockOf(doc[i])
                IN  programs[i].start = IF cand <= prev THEN cand + MinutesPerDay ELSE cand
    /\ Ran /\ programs # <<>>
           /\ doc = <<Row2(23, 30, TitleA), Row2(0, 15, TitleB), Row2(6, 0, TitleC)>> =>
          [i \in 1..3 |-> programs[i].start - base_date * MinutesPerDay]
             = <<23 * 60 + 30, MinutesPerDay + 15, MinutesPerDay + 6 * 60>>

\* the document 23:30, 00:15, 06:00 was normalized into three programmes
C3_Witness ==
    /\ Ran
    /\ doc = <<Row2(23, 30, TitleA), Row2(0, 15, TitleB), Row2(6, 0, TitleC)>>
    /\ Len(programs) = 3

\* C4: the same (time, title) row fed twice in sequence yields exactly one
\* programme
C4_SameRowTwiceYieldsOne ==
    /\ Ran
    /\ Len(doc) = 2
    /\ doc[1] = doc[2]
    /\ doc[1] \in PlainRows
    /\ programs # <<>>
    => Len(programs) = 1

\* C5: in the table and pipe normalizers the last programme, when its row has
\* no duration cell, stops DEFAULT_DURATION_MIN after its start
C5_LastStopIsDefault ==
    /\ pc \in {"table", "pipe"}
    /\ AllRowsKept
    /\ doc # <<>>
    /\ LastOf(doc) \in PlainRows
    => LastOf(programs).stop = LastOf(programs).start + DEFAULT_DURATION_MIN

C7_LastHhmmDuration ==
    /\ pc \in {"table", "pipe"}
    /\ AllRowsKept
    /\ doc # <<>>
    /\ LastOf(doc) \in HhmmRows
    => /\ LastOf(programs).stop = LastOf(programs).start + LastOf(doc).dur
       /\ LastOf(programs).stop # LastOf(programs).start + DEFAULT_DURATION_MIN

\* the row 20:00 | Movie | d | 1:45 came last and gave the last programme
C7_Witness ==
    /\ pc \in {"table", "pipe"}
    /\ AllRowsKept
    /\ Len(doc) >= 2
    /\ LastOf(doc) = Row4(20, 0, TitleMovie, <<"d">>, <<"1", ":", "4", "5">>, 105)
    /\ LastOf(programs).title = TitleMovie

\* C8: every returned programme stops after it starts
C8_StopAfterStart ==
    Ran => \A i \in 1..Len(programs) : programs[i].stop > programs[i].start

\* C9: a programme with a successor whose row has no duration cell stops at
\* the successor's start; 08:00 A, 08:30 B give A.stop = 08:30
C9_StopIsNextStart ==
    /\ AllRowsKept =>
          \A i \in 1..(Len(doc) - 1) :
              doc[i].dur = None => programs[i].stop = programs[i + 1].start
    /\ Ran /\ programs # <<>> /\ doc = <<Row2(8, 0, TitleA), Row2(8, 30, TitleB)>> =>
          programs[1].stop = base_date * MinutesPerDay + 8 * 60 + 30

\* the document 08:00 A, 08:30 B was normalized by the table normalizer
C9_Witness ==
    /\ pc = "table"
    /\ doc = <<Row2(8, 0, TitleA), Row2(8, 30, TitleB)>>
    /\ Len(programs) = 2

\* C10: every programme returned by the three extractors has a non-empty title
C10_TitlesNonEmpty ==
    Ran => \A i \in 1..Len(programs) : programs[i].title # <<>>

(***************************************************************************)
(* Properties of boomerang.main                                            *)
(***************************************************************************)
\* what each strategy returns on the page, computed apart from the run
TableResult ==
    ParseHtmlTable(SoupThs(ths, layout), SoupTrs(doc, layout), base_date)

PipeResult == PipeStrategy(HtmlRaw(ths, doc, layout), base_date)

ScanResult == ScanStrategy(HtmlRaw(ths, doc, layout), base_date)

\* the result of the first strategy, in the order table, pipe, scan, that
\* returned a non-empty list
FirstNonEmptyResult ==
    IF TableResult # <<>> THEN TableResult
    ELSE IF PipeResult # <<>> THEN PipeResult
    ELSE ScanResult

BoomerangParsed == script = "boomerang" /\ pc \in {"write", "done"}

C12_UnusableFallsThrough ==
    ( /\ script = "boomerang" /\ pc = "done"
      /\ TableResult = <<>>
      /\ PipeResult # <<>>
      /\ WriteXml(PipeResult).programmes = <<>> )
    => programs = ScanResult

\* C13: on rows that all bear a time token, at least three of them,
\* parse_pipe_rows on the pipe-delimited lines returns the programmes that
\* parse_html_table returns on the table with the same cells
C13_PipeEqualsTable ==
    ( /\ script = "normalizer" /\ pc = "pipe"
      /\ ths # <<>>
      /\ Len(doc) >= 3
      /\ \A i \in 1..Len(doc) : doc[i].hh # None )
    => programs = ParseHtmlTable(ths, AsTable(doc), base_date)

(***************************************************************************)
(* Properties of the time-token recognizer                                 *)
(***************************************************************************)
\* C19: a row is recognized exactly when it holds a clock token (hour 0 to
\* 23, minute 00 to 59, separator ':', '.' or 'h'), and its programme starts at
\* the clock of the first such token
C19_ClockTokensRecognized ==
    (script = "normalizer" /\ Ran /\ Len(doc) = 1 /\ ths # <<>>)
    => /\ Len(programs) = (IF doc[1].hh # None THEN 1 ELSE 0)
       /\ \A i \in 1..Len(programs) :
             programs[i].start = Combine(base_date, doc[1].hh, doc[1].mm)

(***************************************************************************)
(* Properties of atv3kg2.main                                              *)
(***************************************************************************)
\* the rows of the page that have both elements
Atv3Rows == SelectSeq(page, LAMBDA r : r.has_time /\ r.has_program)

\* how many of the rows stand for the clock hh:mm under the title
Atv3RowCount(hh, mm, title) ==
    Cardinality({k \in 1..Len(Atv3Rows) :
                    /\ Atv3Rows[k].hh = hh /\ Atv3Rows[k].mm = mm
                    /\ Atv3Rows[k].program = title})

\* how many programmes of the guide start at hh:mm today under the title
Atv3ProgrammeCount(hh, mm, title) ==
    Cardinality({k \in 1..Len(xml.programmes) :
                    /\ xml.programmes[k].start = Combine(base_date, hh, mm)
                    /\ xml.programmes[k].title = title})

\* C20: atv3kg2.main leaves out exactly the rows whose time text is not two
\* ':'-separated integers forming an hour and a minute; every other row is in
\* the guide exactly once, under its title, and the guide is written
C20_OnlyMalformedTimesDropped ==
    (script = "atv3kg2" /\ pc = "done" /\ Atv3Rows # <<>>)
    => /\ xml.channel = "atv3kg2"
       /\ Len(xml.programmes) =
             Cardinality({k \in 1..Len(Atv3Rows) : Atv3Rows[k].hh # None})
       /\ \A k \in 1..Len(Atv3Rows) :
             Atv3Rows[k].hh # None =>
                Atv3ProgrammeCount(Atv3Rows[k].hh, Atv3Rows[k].mm, Atv3Rows[k].program)
                = Atv3RowCount(Atv3Rows[k].hh, Atv3Rows[k].mm, Atv3Rows[k].program)

\* a page with a malformed row between two well-formed rows: the guide holds
\* the two
C20_Witness ==
    /\ script = "atv3kg2" /\ pc = "done"
    /\ Len(page) = 3
    /\ Atv3Rows = page
    /\ page[1].hh # None /\ page[2].hh = None /\ page[3].hh # None
    /\ Len(xml.programmes) = 2

\* the channel id each single-channel script declares in its guide
GuideChannelOf(name) ==
    CASE name = "boomerang" -> CHANNEL_ID
      [] name = "atv3kg2"   -> "atv3kg2"
      [] name = "brthtv"    -> "brthtv"
      [] name = "redbulltv" -> "redbulltv"
      [] OTHER              -> ""

\* the run has ended and its source could not be fetched or gave no entries
EndedWithoutEntries ==
    /\ script \in {"boomerang", "atv3kg2", "brthtv", "redbulltv"}
    /\ pc = "failed" \/ (pc = "done" /\ programs = <<>>)

\* C17: a run of boomerang, atv3kg2, brthtv or redbulltv whose source cannot be
\* fetched or yields no entries ends with a guide written that holds the
\* channel declaration and zero programmes
C17_EmptyGuideWritten ==
    EndedWithoutEntries => xml = [channel |-> GuideChannelOf(script), programmes |-> <<>>]

\* C18: unbeaten.parse leaves unshifted every start that already lies on the
\* target date, among them every start with hour 4 or later: each start of the
\* result, placed on the target date before the correction, is still on it
C18_EarlyHoursOnlyBeforeTarget ==
    (script = "unbeaten" /\ pc = "done")
    => \A k \in 1..Len(programs) : DateOf(programs[k].start) = base_date

\* the blocks of the page whose text matches none of the six patterns
CleanBlocks == SelectSeq(page, LAMBDA b : ~LooksLikeContact(GetText(b, "\n")))

\* C14: in craw1.parse_antv_html a block whose text matches the phone,
\* international-phone, email, hotline, contact or ads pattern produces no
\* item, the result being that of the page without these blocks, and no
\* returned title matches the phone, email, hotline or contact pattern
C14_NoiseRejected ==
    (script = "craw1.parse_antv_html" /\ pc = "done")
    => /\ programs = ParseAntvHtml(CleanBlocks, base_date)
       /\ \A k \in 1..Len(programs) : ~ContactTitle(programs[k].title)

\* an advertising block with a well-formed time and title between two
\* programme blocks: the two programmes are returned, nothing at 10:00
C14_Witness ==
    /\ script = "craw1.parse_antv_html" /\ pc = "done"
    /\ Len(page) = 3
    /\ page[2] = <<ClockText(10, 0), Film, SponsorText>>
    /\ Len(CleanBlocks) = 2
    /\ Len(programs) = 2
    /\ \A k \in 1..2 : programs[k].start # Combine(base_date, 10, 0)

\* the contact text of the pages, as crawl_generic leaves it
IsContactText(title) == title = HotlineText

\* C15: in the pipeline craw1.main runs, a row with a time token next to the
\* text 'Hotline: 0909123456' yields no programme whose title is that text
C15_PipelineRejectsContact ==
    script = "craw1"
    => \A c \in 1..Len(programs) : \A k \in 1..Len(programs[c].programmes) :
          ~IsContactText(programs[c].programmes[k].title)

\* the channel at position c of the list failed on every day: no page fetched
\* or the parser raised
FailedChannel(c) ==
    IF script = "craw" THEN page[c].crawl.kind # "ok"
    ELSE \A k \in 1..Len(Offsets) :
            page[c].days[k].raises \/ page[c].days[k].fetch = "error"

\* the (start, title) pairs of a list of programmes
StartsAndTitles(items) == [k \in 1..Len(items) |-> <<items[k].start, items[k].title>>]

\* what the crawl of the channel at position c returned, taken alone
CrawledAlone(c) ==
    IF script = "craw" THEN page[c].crawl.items
    ELSE AllItems(page[c], base_date)

\* C16: craw.main and craw1.main never stop before build_xmltv, and the
\* list handed to build_xmltv has one entry for each channel in the order of
\* the loaded list, empty for a channel that failed, with its own programmes
\* for any other
C16_BatchSurvivesBadChannel ==
    script \in {"craw", "craw1"}
    => /\ pc # "aborted"
       /\ pc = "built"
          => /\ xml.channels = [c \in 1..Len(page) |-> ChanIds[c]]
             /\ Len(programs) = Len(page)
             /\ \A c \in 1..Len(page) :
                   /\ FailedChannel(c) => programs[c].programmes = <<>>
                   /\ ~FailedChannel(c) =>
                         StartsAndTitles(programs[c].programmes)
                         = StartsAndTitles(CrawledAlone(c))

\* the list whose last row is the last row to_xmltv reads
LastDayList == IF page.tomorrow # <<>> THEN page.tomorrow ELSE page.today

\* the last programme written has no successor: it is the last entry for
\* atv3kg2 and unbeaten, and comes from the last row read for crawl_boomerang
LastHasNoSuccessor ==
    /\ pc = "done" /\ programs # <<>>
    /\ \/ script \in {"atv3kg2", "unbeaten"}
       \/ /\ script = "crawl_boomerang"
          /\ LastDayList # <<>>
          /\ StrpTime24(PadFour(LastDayList[Len(LastDayList)].time)).ok

\* C21: in crawl_boomerang.to_xmltv, atv3kg2.build_xml and unbeaten.build_xml
\* the programme without a successor stops 30 minutes after its start
C21_LastStopIsDefaultDuration ==
    LastHasNoSuccessor
    => xml.programmes[Len(xml.programmes)].stop
         = xml.programmes[Len(xml.programmes)].start + DEFAULT_DURATION_MIN

\* C26: the programme elements crawl_boomerang.to_xmltv writes for the today
\* list followed by the tomorrow list have strictly increasing starts
C26_StartsStrictlyIncrease ==
    (script = "crawl_boomerang" /\ pc = "done")
    => \A k \in 1..(Len(xml.programmes) - 1) :
           xml.programmes[k].start < xml.programmes[k + 1].start

\* C25: brthtv.build_xmltv emits programmes sorted by start and not
\* overlapping, whatever the document order of the schedule: each programme
\* stops no later than the next one starts
C25_SortedWithoutOverlap ==
    (script = "brthtv" /\ pc = "done")
    => \A k \in 1..(Len(xml.programmes) - 1) :
           /\ xml.programmes[k].start <= xml.programmes[k + 1].start
           /\ xml.programmes[k].stop <= xml.programmes[k + 1].start

\* the indexes of the entries equal to no earlier entry
FirstOccurrences(raw) == {i \in 1..Len(raw) : \A j \in 1..(i - 1) : raw[j] # raw[i]}

\* the k-th smallest index of idx
NthOf(idx, k) == CHOOSE i \in idx : Cardinality({j \in idx : j <= i}) = k

\* out holds the first occurrences of raw, in the order of raw
KeepsFirstOccurrences(raw, out) ==
    /\ Len(out) = Cardinality(FirstOccurrences(raw))
    /\ \A k \in 1..Len(out) : out[k] = raw[NthOf(FirstOccurrences(raw), k)]

\* C28: the deduplication ending brthtv.extract_schedule_from_html keeps the
\* first occurrence of each (time, title) pair in the order of the document,
\* drops the later ones, and leaves its own result unchanged
C28_DedupKeepsFirst ==
    (script = "brthtv" /\ pc = "done")
    => /\ KeepsFirstOccurrences(BrtEntries(page), ExtractScheduleFromHtml(page))
       /\ DedupFrom(ExtractScheduleFromHtml(page), 1, {}) = ExtractScheduleFromHtml(page)

\* a page that repeats a pair after another pair: three entries, two kept
C28_Witness ==
    /\ script = "brthtv" /\ pc = "done"
    /\ Len(BrtEntries(page)) = 3
    /\ BrtEntries(page)[1] = BrtEntries(page)[3]
    /\ BrtEntries(page)[1] # BrtEntries(page)[2]
    /\ Len(ExtractScheduleFromHtml(page)) = 2
    /\ Len(xml.programmes) = 2

\* the indexes of the items whose start and end parse and whose start is on
\* the local date today
TodayItems(today, items) ==
    {i \in 1..Len(items) :
        /\ items[i].start_ok /\ items[i].end_ok
        /\ (items[i].start + VnOffsetMinutes) \div MinutesPerDay = today}

\* C23: redbulltv.main emits an item exactly when its start and end parse and
\* its start is on today's date in Asia/Ho_Chi_Minh, in the order of the
\* source, whatever the date of its stop
C23_DayWindowFilter ==
    (script = "redbulltv" /\ pc = "done" /\ page.kind = "items" /\ page.items # <<>>)
    => /\ Len(xml.programmes) = Cardinality(TodayItems(base_date, page.items))
       /\ \A k \in 1..Len(xml.programmes) :
            /\ xml.programmes[k].start
                 = page.items[NthOf(TodayItems(base_date, page.items), k)].start
                   + VnOffsetMinutes
            /\ xml.programmes[k].stop
                 = page.items[NthOf(TodayItems(base_date, page.items), k)].end
                   + VnOffsetMinutes

\* three items: one of another day, one that starts today and stops tomorrow,
\* one whose end does not parse; only the second is emitted
C23_Witness ==
    /\ script = "redbulltv" /\ pc = "done" /\ page.kind = "items"
    /\ Len(page.items) = 3
    /\ ~page.items[3].end_ok
    /\ DateOf(page.items[1].start + VnOffsetMinutes) # base_date
    /\ Len(xml.programmes) = 1
    /\ DateOf(xml.programmes[1].start) = base_date
    /\ DateOf(xml.programmes[1].stop) = base_date + 1

\* C24: the programmes atv3kg2.main writes after its sort have pairwise
\* different starts, and each stops after it starts
C24_StartsDistinct ==
    (script = "atv3kg2" /\ pc = "done")
    => /\ \A j, k \in 1..Len(xml.programmes) :
            j # k => xml.programmes[j].start # xml.programmes[k].start
       /\ \A k \in 1..Len(xml.programmes) :
            xml.programmes[k].stop > xml.programmes[k].start

\* the number of rows that reach the dating step of the normalizer that ran:
\* rows with a time and, where it is tested, a title
RowsPassingChecks ==
    CASE pc = "table" ->
           IF IsScheduleHeader(HeaderText(ths \o Flatten(AsTable(doc))))
           THEN Len(SelectSeq(AsTable(doc), LAMBDA cells : TableCandidateOf(cells).ok))
           ELSE 0
      [] pc = "pipe" ->
           Len(SelectSeq(Cleaned(AsPipeLines(doc)), LAMBDA ln : PipeCandidateOf(ln).ok))
      [] pc = "scan" ->
           Len(SelectSeq(TimeLines(AsTextLines(doc)), LAMBDA ln : ScanCandidateOf(ln).ok))
      [] OTHER -> 0

\* C29: the dedup branch of the boomerang.py normalizers removes no row: each
\* normalizer returns as many programmes as rows passed its time and title
\* checks
C29_DedupRemovesNothing ==
    (script = "normalizer" /\ Ran) => Len(programs) = RowsPassingChecks

\* a document that repeats a row and then has a row with the title of the
\* first under another clock: three programmes
C29_Witness ==
    /\ script = "normalizer" /\ Ran
    /\ Len(doc) = 3
    /\ doc[1] = doc[2]
    /\ doc[3].title = doc[1].title /\ ClockOf(doc[3]) # ClockOf(doc[1])
    /\ RowsPassingChecks = 3
    /\ Len(programs) = 3

\* the decimal digits of n
RECURSIVE MinutesText(_)
MinutesText(n) ==
    IF n < 10 THEN <<DigitChars[n + 1]>>
    ELSE MinutesText(n \div 10) \o <<DigitChars[(n % 10) + 1]>>

\* n minutes written H:MM
HhmmText(n) == MinutesText(n \div 60) \o <<":">> \o Fmt2(n % 60)

\* the clock time of a start, as a time cell
ClockOfStart(start) == ClockText((start % MinutesPerDay) \div 60, start % 60)

\* a programme written back as a row: clock of its start, title, and its
\* duration stop - start in minutes, or as H:MM
RowsInMinutes(progs) ==
    [k \in 1..Len(progs) |->
        <<ClockOfStart(progs[k].start), progs[k].title,
          MinutesText(progs[k].stop - progs[k].start)>>]

RowsInHhmm(progs) ==
    [k \in 1..Len(progs) |->
        <<ClockOfStart(progs[k].start), progs[k].title,
          HhmmText(progs[k].stop - progs[k].start)>>]

\* the heading row given to the table written back
ScheduleHeader == <<<<"T", "h", "ờ", "i", " ", "g", "i", "a", "n">>, <<"T", "ê", "n">>>>

\* the normalizer that ran, run on the rows written back
NormalizedAgain(rows) ==
    IF pc = "table" THEN ParseHtmlTable(ScheduleHeader, rows, base_date)
    ELSE ParsePipeRows([k \in 1..Len(rows) |-> PipeLine(rows[k])], base_date)

SameEntries(a, b) ==
    /\ Len(a) = Len(b)
    /\ \A k \in 1..Len(a) :
          a[k].start = b[k].start /\ a[k].stop = b[k].stop /\ a[k].title = b[k].title

\* C22: the programmes returned by parse_html_table or parse_pipe_rows, written
\* back as rows (clock of start, title, duration stop - start, the duration in
\* minutes or as H:MM) and normalized again with the same base date, give the
\* same starts, stops and titles
C22_RoundTrip ==
    (script = "normalizer" /\ pc \in {"table", "pipe"})
    => \/ SameEntries(programs, NormalizedAgain(RowsInMinutes(programs)))
       \/ SameEntries(programs, NormalizedAgain(RowsInHhmm(programs)))

\* the selector crawl_qpvn chooses: the first that finds more than two elements
IsChosen(k) == Len(page[k]) > 2 /\ \A j \in 1..(k - 1) : Len(page[j]) <= 2

\* C27: when every element of the selector crawl_qpvn chooses fails to parse
\* and a later selector finds more than two elements of which one parses, the
\* guide written is not empty
C27_NextSelectorTried ==
    (script = "qpvn" /\ pc = "done")
    => \A k \in 1..NumSelectors :
         ( /\ IsChosen(k)
           /\ QpvnElements(base_date, page[k]) = <<>>
           /\ \E j \in (k + 1)..NumSelectors :
                 Len(page[j]) > 2 /\ QpvnElements(base_date, page[j]) # <<>> )
         => xml.programmes # <<>>

\* C30: in every run of craw1.main that wrote programmes_count.txt, the number
\* in it is the number of programme elements of the epg1.xml written
C30_CountMatchesGuide ==
    (script = "craw1" /\ programmes_count # None)
    => programmes_count = Len(xml.programmes)

====
